---- MODULE Spec2Model ----
(***************************************************************************)
(* Type registry of the AngelScript language server                        *)
(* (language-server/src/database.ts) and the engine connection of the      *)
(* server that feeds it.                                                   *)
(*                                                                         *)
(* A JavaScript string is a sequence of one-character strings, so that     *)
(* trim, startsWith, substring, split and the template regular expression  *)
(* are computed character by character as the code computes them.          *)
(* A JavaScript object is a record.  A field the code never assigned holds *)
(* UNDEF (string fields), UNDEF_ARR (array fields) or "undefined" (boolean *)
(* fields without an initializer); null is NULL / NULL_ARR.                *)
(***************************************************************************)
EXTENDS Integers, Sequences, FiniteSets, TLC

(***************************************************************************)
(* JavaScript values                                                       *)
(***************************************************************************)
UNDEF == <<"undefined">>
NULL == <<"null">>
UNDEF_ARR == <<UNDEF>>
NULL_ARR == <<NULL>>

\* if (s) on a string: undefined, null and "" are falsy
TruthyStr(s) == s # UNDEF /\ s # NULL /\ s # <<>>

\* if (a) on an array: only undefined and null are falsy
TruthyArr(a) == a # UNDEF_ARR /\ a # NULL_ARR

\* if (b) on a boolean field that may never have been assigned
TruthyFlag(b) == b = "true"

\* a JSON boolean stored into a field without initializer
FlagOf(b) == IF b THEN "true" ELSE "false"

(***************************************************************************)
(* Characters and string primitives                                        *)
(***************************************************************************)
\* [A-Za-z_0-9]
WordChars ==
    { "a","b","c","d","e","f","g","h","i","j","k","l","m",
      "n","o","p","q","r","s","t","u","v","w","x","y","z",
      "A","B","C","D","E","F","G","H","I","J","K","L","M",
      "N","O","P","Q","R","S","T","U","V","W","X","Y","Z",
      "0","1","2","3","4","5","6","7","8","9","_" }

\* \s, and the characters String.prototype.trim removes
SpaceChars == { " ", "\t", "\n", "\r" }

\* [A-Za-z_0-9,\s]
ArgChars == WordChars \cup SpaceChars \cup { "," }

RECURSIVE TrimStart(_)
TrimStart(s) ==
    IF s # <<>> /\ Head(s) \in SpaceChars THEN TrimStart(Tail(s)) ELSE s

RECURSIVE TrimEnd(_)
TrimEnd(s) ==
    IF s # <<>> /\ s[Len(s)] \in SpaceChars
    THEN TrimEnd(SubSeq(s, 1, Len(s) - 1))
    ELSE s

\* String.prototype.trim
Trim(s) == TrimEnd(TrimStart(s))

\* String.prototype.startsWith
StartsWith(s, p) == Len(s) >= Len(p) /\ SubSeq(s, 1, Len(p)) = p

\* String.prototype.endsWith
EndsWith(s, p) ==
    Len(s) >= Len(p) /\ SubSeq(s, Len(s) - Len(p) + 1, Len(s)) = p

\* s.substring(from), from counted from 0
Substring(s, from) == SubSeq(s, from + 1, Len(s))

\* s.substring(0, to)
Prefix(s, to) == SubSeq(s, 1, to)

\* s.indexOf(c) != -1
Contains(s, c) == \E i \in 1..Len(s) : s[i] = c

\* seq.includes(x)
InSeq(x, seq) == \E i \in 1..Len(seq) : seq[i] = x

\* s.split(","): the pieces between the commas, empty pieces kept
RECURSIVE SplitFrom(_, _)
SplitFrom(s, i) ==
    IF i > Len(s)
    THEN << s >>
    ELSE IF s[i] = ","
    THEN << SubSeq(s, 1, i - 1) >> \o SplitFrom(SubSeq(s, i + 1, Len(s)), 1)
    ELSE SplitFrom(s, i + 1)

Split(s) == SplitFrom(s, 1)

\* a.map(function(s) { return s.trim(); })
MapTrim(a) == [ i \in 1..Len(a) |-> Trim(a[i]) ]

\* the last index of the longest run of characters of cls that starts at i
\* (i - 1 when s[i] is not in cls or i is past the end)
RECURSIVE RunEnd(_, _, _)
RunEnd(s, i, cls) ==
    IF i <= Len(s) /\ s[i] \in cls THEN RunEnd(s, i + 1, cls) ELSE i - 1

(***************************************************************************)
(* CleanTypeName, ReplaceTemplateType, re_template                         *)
(***************************************************************************)
ConstPrefix == << "c","o","n","s","t"," " >>

\* if (typename.startsWith("const ")) typename = typename.substring(6)
StripConst(t) == IF StartsWith(t, ConstPrefix) THEN Substring(t, 6) ELSE t

\* a CleanTypeName that leaves the reference and handle marks in place
StripSuffix_Keep(t, c) == t

\* if (typename.endsWith(c))
\*     typename = typename.substring(0, typename.length-1).trim()
StripSuffix(t, c) ==
    IF EndsWith(t, << c >>) THEN Trim(Prefix(t, Len(t) - 1)) ELSE t

CleanTypeName(typename) ==
    StripSuffix(StripSuffix(StripConst(Trim(typename)), "&"), "@")

\* the index of the first element of seq equal to x, 0 when there is none
FirstIndexOf(seq, x) ==
    IF InSeq(x, seq)
    THEN CHOOSE i \in 1..Len(seq) :
             seq[i] = x /\ \A j \in 1..(i - 1) : seq[j] # x
    ELSE 0

\* a ReplaceTemplateType that replaces every placeholder by the first
\* actual name
ReplaceCleaned_First(clean, hit, actualTypes) ==
    IF hit = 0 THEN clean ELSE actualTypes[1]

\* the loop of ReplaceTemplateType over the cleaned name: hit is the index
\* of the first placeholder equal to it
ReplaceCleaned(clean, hit, actualTypes) ==
    IF hit = 0
    THEN clean
    ELSE IF hit <= Len(actualTypes) THEN actualTypes[hit] ELSE UNDEF

\* the first placeholder equal to the cleaned name decides; the result of a
\* miss is the cleaned name
ReplaceTemplateTypeOf(clean, templateTypes, actualTypes) ==
    ReplaceCleaned(clean, FirstIndexOf(templateTypes, clean), actualTypes)

\* a ReplaceTemplateType that hands back the name as declared when no
\* placeholder matches
ReplaceTemplateType_Declared(typename, templateTypes, actualTypes) ==
    IF FirstIndexOf(templateTypes, CleanTypeName(typename)) = 0
    THEN typename
    ELSE ReplaceTemplateTypeOf(CleanTypeName(typename), templateTypes,
                               actualTypes)

ReplaceTemplateType(typename, templateTypes, actualTypes) ==
    ReplaceTemplateTypeOf(CleanTypeName(typename), templateTypes, actualTypes)

\* /([A-Za-z_0-9]+)\<([A-Za-z_0-9,\s]+)\>/ tried at position i, where the
\* longest run of word characters from i ends at j and the longest run of
\* argument characters from j + 2 ends at k.  Neither class holds "<" or
\* ">", so each group can only be the longest run.
TemplateMatchRuns(s, i, j, k) ==
    /\ j >= i
    /\ j + 1 <= Len(s)
    /\ s[j + 1] = "<"
    /\ k >= j + 2
    /\ k + 1 <= Len(s)
    /\ s[k + 1] = ">"

TemplateMatchWord(s, i, j) ==
    TemplateMatchRuns(s, i, j, RunEnd(s, j + 2, ArgChars))

TemplateMatchAt(s, i) == TemplateMatchWord(s, i, RunEnd(s, i, WordChars))

\* the two groups of the match that starts at i
TemplateGroups(s, i, j) ==
    [ found    |-> TRUE,
      basetype |-> SubSeq(s, i, j),
      inner    |-> SubSeq(s, j + 2, RunEnd(s, j + 2, ArgChars)) ]

\* the leftmost position in 1..Len(s) at which the expression matches, 0
\* when there is none
RECURSIVE TemplateMatchStart(_, _)
TemplateMatchStart(s, i) ==
    IF i > Len(s)
    THEN 0
    ELSE IF TemplateMatchAt(s, i) THEN i ELSE TemplateMatchStart(s, i + 1)

TemplateMatchFrom(s, i) ==
    IF i = 0
    THEN [ found |-> FALSE, basetype |-> <<>>, inner |-> <<>> ]
    ELSE TemplateGroups(s, i, RunEnd(s, i, WordChars))

\* typename.match(re_template): the leftmost match, or no match
TemplateMatch(s) == TemplateMatchFrom(s, TemplateMatchStart(s, 1))

(***************************************************************************)
(* FormatDocumentationComment                                              *)
(***************************************************************************)
NewlineChars == { "\r", "\n" }
BlankChars == { " ", "\t" }

\* doc.replace(/[\r\n]+[ \t]*\*+[ \t]*/gi, "\n"): every match, left to right.
\* The three classes are disjoint, so a match at a position is the longest
\* run of each.
RECURSIVE ReplaceStarEnd(_)
\* j, k, l: where the runs of line breaks, of blanks and of stars end
StarEndStars(s, j, k, l) ==
    IF j >= 1 /\ l >= k + 1
    THEN << "\n" >>
         \o ReplaceStarEnd(SubSeq(s, RunEnd(s, l + 1, BlankChars) + 1, Len(s)))
    ELSE << Head(s) >> \o ReplaceStarEnd(Tail(s))

StarEndBlanks(s, j, k) == StarEndStars(s, j, k, RunEnd(s, k + 1, { "*" }))

StarEndBreaks(s, j) == StarEndBlanks(s, j, RunEnd(s, j + 1, BlankChars))

ReplaceStarEnd(s) ==
    IF s = <<>> THEN <<>> ELSE StarEndBreaks(s, RunEnd(s, 1, NewlineChars))

\* doc.replace(/^[ \t]*\*+[ \t]*[\r\n]+/gi, " "): without the m flag ^ is the
\* start of the text, so there is at most one match
\* j, k, l, m: where the runs of blanks, of stars, of blanks and of line
\* breaks end
StarStartBreaks(s, j, k, l, m) ==
    IF k >= j + 1 /\ m >= l + 1
    THEN << " " >> \o SubSeq(s, m + 1, Len(s))
    ELSE s

StarStartBlanks(s, j, k, l) ==
    StarStartBreaks(s, j, k, l, RunEnd(s, l + 1, NewlineChars))

StarStartStars(s, j, k) == StarStartBlanks(s, j, k, RunEnd(s, k + 1, BlankChars))

StarStartLead(s, j) == StarStartStars(s, j, RunEnd(s, j + 1, { "*" }))

ReplaceStarStart(s) == StarStartLead(s, RunEnd(s, 1, BlankChars))

FormatDocumentationComment(doc) == Trim(ReplaceStarStart(ReplaceStarEnd(doc)))

(***************************************************************************)
(* Entities.  A JSON object is a record whose domain is the set of keys    *)
(* present; a JSON object iterated with for..in is a sequence of           *)
(* [key, value] records in insertion order.                                *)
(***************************************************************************)
Has(input, key) == key \in DOMAIN input

\* DBProperty.fromJSON(name, input): input is the array [typename, doc?]
DBProperty_fromJSON(name, input) ==
    [ name          |-> name,
      typename      |-> input[1],
      documentation |-> IF Len(input) >= 2
                        THEN FormatDocumentationComment(input[2])
                        ELSE UNDEF,
      isProtected   |-> "false",
      isPrivate     |-> "false" ]

\* DBProperty.createTemplateInstance: name and typename only
DBProperty_createTemplateInstance(prop, templateTypes, actualTypes) ==
    [ name          |-> prop.name,
      typename      |-> ReplaceTemplateType(prop.typename, templateTypes,
                                            actualTypes),
      documentation |-> UNDEF,
      isProtected   |-> "undefined",
      isPrivate     |-> "undefined" ]

\* DBArg.fromJSON
DBArg_fromJSON(input) ==
    [ name         |-> IF Has(input, "name") THEN input.name ELSE NULL,
      typename     |-> input.type,
      defaultvalue |-> IF Has(input, "default") THEN input.default ELSE NULL ]

\* DBArg.createTemplateInstance
DBArg_createTemplateInstance(arg, templateTypes, actualTypes) ==
    [ name         |-> arg.name,
      typename     |-> ReplaceTemplateType(arg.typename, templateTypes,
                                           actualTypes),
      defaultvalue |-> arg.defaultvalue ]

\* new DBMethod(): the field initializers
NewDBMethod ==
    [ name          |-> UNDEF,
      returnType    |-> UNDEF,
      args          |-> << >>,
      argumentStr   |-> UNDEF,
      documentation |-> UNDEF,
      declaredModule |-> UNDEF,
      isProtected   |-> FALSE,
      isPrivate     |-> FALSE,
      isConstructor |-> FALSE,
      isEvent       |-> FALSE,
      isConst       |-> FALSE ]

\* DBMethod.fromJSON
DBMethod_fromJSON(input) ==
    [ NewDBMethod EXCEPT
        !.name          = input.name,
        !.returnType    = IF Has(input, "return") THEN input.return
                          ELSE << "v","o","i","d" >>,
        !.args          = IF Has(input, "args")
                          THEN [ i \in 1..Len(input.args) |->
                                     DBArg_fromJSON(input.args[i]) ]
                          ELSE << >>,
        !.documentation = IF Has(input, "doc")
                          THEN FormatDocumentationComment(input.doc)
                          ELSE NULL,
        !.isConstructor = IF Has(input, "isConstructor")
                          THEN input.isConstructor ELSE FALSE,
        !.isConst       = IF Has(input, "const") THEN input.const ELSE FALSE,
        !.isEvent       = IF Has(input, "event") THEN input.event ELSE FALSE ]

\* DBMethod.createTemplateInstance: name, returnType, argumentStr,
\* documentation and args; the flags keep their initializers
DBMethod_createTemplateInstance(mth, templateTypes, actualTypes) ==
    [ NewDBMethod EXCEPT
        !.name          = mth.name,
        !.returnType    = ReplaceTemplateType(mth.returnType, templateTypes,
                                              actualTypes),
        !.argumentStr   = mth.argumentStr,
        !.documentation = mth.documentation,
        !.args          = [ i \in 1..Len(mth.args) |->
                              DBArg_createTemplateInstance(
                                  mth.args[i], templateTypes, actualTypes) ] ]

\* new DBType(): isDelegate, isEvent and isPrimitive have initializers, every
\* other field is unassigned
NewDBType ==
    [ typename          |-> UNDEF,
      supertype         |-> UNDEF,
      properties        |-> << >>,
      methods           |-> << >>,
      unrealsuper       |-> UNDEF,
      documentation     |-> UNDEF,
      isStruct          |-> "undefined",
      isNS              |-> "undefined",
      isEnum            |-> "undefined",
      rawName           |-> UNDEF,
      namespaceResolved |-> "undefined",
      shadowedNamespace |-> "undefined",
      isDelegate        |-> FALSE,
      isEvent           |-> FALSE,
      isPrimitive       |-> FALSE,
      declaredModule    |-> UNDEF,
      siblingTypes      |-> UNDEF_ARR,
      subTypes          |-> UNDEF_ARR ]

\* DBType.initEmpty
DBType_initEmpty(type, name) ==
    [ type EXCEPT !.typename = name, !.methods = << >>, !.properties = << >> ]

\* DBType.fromJSON
DBType_fromJSON(type, name, input) ==
    [ type EXCEPT
        !.typename      = name,
        !.properties    = IF Has(input, "properties")
                          THEN [ i \in 1..Len(input.properties) |->
                                   DBProperty_fromJSON(
                                       input.properties[i].key,
                                       input.properties[i].value) ]
                          ELSE << >>,
        !.methods       = IF Has(input, "methods")
                          THEN [ i \in 1..Len(input.methods) |->
                                   DBMethod_fromJSON(input.methods[i].value) ]
                          ELSE << >>,
        !.subTypes      = IF Has(input, "subtypes") THEN input.subtypes ELSE @,
        !.unrealsuper   = IF Has(input, "supertype") THEN input.supertype ELSE @,
        !.supertype     = IF Has(input, "inherits") THEN input.inherits ELSE @,
        !.documentation = IF Has(input, "doc")
                          THEN FormatDocumentationComment(input.doc)
                          ELSE NULL,
        !.isStruct      = IF Has(input, "isStruct")
                          THEN FlagOf(input.isStruct) ELSE "false",
        !.isEnum        = IF Has(input, "isEnum")
                          THEN FlagOf(input.isEnum) ELSE "false" ]

\* DBType.createTemplateInstance(actualTypes), before GetType renames the
\* instance.  status "TypeError": this.subTypes.length read on undefined or
\* null; status "null": the early return.
DBType_createTemplateInstance(this, actualTypes) ==
    IF ~TruthyArr(this.subTypes)
    THEN [ status |-> "TypeError", inst |-> NewDBType ]
    ELSE IF Len(actualTypes) # Len(this.subTypes)
    THEN [ status |-> "null", inst |-> NewDBType ]
    ELSE [ status |-> "ok",
           inst   |->
             [ NewDBType EXCEPT
                 !.typename          = this.typename,
                 !.supertype         = this.supertype,
                 !.isNS              = this.isNS,
                 !.isEnum            = this.isEnum,
                 !.rawName           = this.rawName,
                 !.namespaceResolved = this.namespaceResolved,
                 !.shadowedNamespace = this.shadowedNamespace,
                 !.declaredModule    = this.declaredModule,
                 !.siblingTypes      = IF TruthyArr(this.siblingTypes)
                                       THEN this.siblingTypes ELSE @,
                 !.subTypes          = NULL_ARR,
                 !.properties        =
                     [ i \in 1..Len(this.properties) |->
                         DBProperty_createTemplateInstance(
                             this.properties[i], this.subTypes, actualTypes) ],
                 !.methods           =
                     [ i \in 1..Len(this.methods) |->
                         DBMethod_createTemplateInstance(
                             this.methods[i], this.subTypes, actualTypes) ] ] ]

(***************************************************************************)
(* The registry: database, a Map from type name to DBType.  A registry is  *)
(* a function from the names present to the objects stored under them.     *)
(***************************************************************************)
EmptyDatabase == [ n \in {} |-> NewDBType ]

\* database.set(key, type)
MapSet(db, key, type) ==
    [ n \in DOMAIN db \cup { key } |-> IF n = key THEN type ELSE db[n] ]

\* a comparison under which an entry without a module belongs to every
\* module
LooseEq_NoModuleMatches(a, b) ==
    a = b \/ a \in { UNDEF, NULL }

\* a == b on values that are strings, undefined or null
LooseEq(a, b) ==
    \/ a = b
    \/ (a \in { UNDEF, NULL } /\ b \in { UNDEF, NULL })

\* what an operation on the registry hands back: the registry as it leaves
\* it, how it ended ("type", "method", "null", "done" or the exception
\* "TypeError"), the key of the DBType returned, the DBMethod returned, and
\* created: the keys under which it stored an object it constructed (new
\* DBType), which is what tells an entry that was replaced by an equal
\* object from an entry that was left alone
Outcome(db, status, key, method, created) ==
    [ db |-> db, status |-> status, key |-> key, method |-> method,
      created |-> created ]

\* what a query of the resolver hands back: the registry as it leaves it,
\* how it ended ("list", "string", "boolean", "null" or the exception
\* "TypeError"), the value returned, and the keys it created
Returned(db, status, result, created) ==
    [ db |-> db, status |-> status, result |-> result, created |-> created ]

RECURSIVE GetType(_, _)

\* a GetTypeStore that leaves the instance under the name of its base
GetTypeStore_Unrenamed(typename, dbbasetype, made) ==
    IF made.status # "ok"
    THEN Outcome(dbbasetype.db, "TypeError", << >>, << >>, dbbasetype.created)
    ELSE Outcome(MapSet(dbbasetype.db, typename, made.inst),
                 "type", typename, << >>,
                 dbbasetype.created \cup { typename })

\* database.set(typename, inst); return inst, or the exception of
\* inst.typename = typename on the null returned for a wrong number of
\* arguments (the assignment runs before if (!inst)), or the exception of
\* createTemplateInstance itself
GetTypeStore(typename, dbbasetype, made) ==
    IF made.status = "TypeError"
    THEN Outcome(dbbasetype.db, "TypeError", << >>, << >>, dbbasetype.created)
    ELSE IF made.status = "null"
    THEN Outcome(dbbasetype.db, "TypeError", << >>, << >>, dbbasetype.created)
    ELSE Outcome(MapSet(dbbasetype.db, typename,
                        [ made.inst EXCEPT !.typename = typename ]),
                 "type", typename, << >>,
                 dbbasetype.created \cup { typename })

\* if (!dbbasetype) return null;
\* let inst = dbbasetype.createTemplateInstance(subtypes); ...
GetTypeInstance(typename, subtypes, dbbasetype) ==
    IF dbbasetype.status = "TypeError"
    THEN dbbasetype
    ELSE IF dbbasetype.status = "null"
    THEN Outcome(dbbasetype.db, "null", << >>, << >>, dbbasetype.created)
    ELSE GetTypeStore(typename, dbbasetype,
                      DBType_createTemplateInstance(
                          dbbasetype.db[dbbasetype.key], subtypes))

\* if (match != null) { ... let dbbasetype = GetType(basetype); ... }
GetTypeMatched(db, typename, match) ==
    IF match.found
    THEN GetTypeInstance(typename, MapTrim(Split(match.inner)),
                         GetType(db, match.basetype))
    ELSE Outcome(db, "null", << >>, << >>, {})

\* GetType after typename = CleanTypeName(typename)
GetTypeCleaned(db, typename) ==
    IF typename \in DOMAIN db
    THEN Outcome(db, "type", typename, << >>, {})
    ELSE IF Contains(typename, "<")
    THEN GetTypeMatched(db, typename, TemplateMatch(typename))
    ELSE Outcome(db, "null", << >>, << >>, {})

\* GetType(typename)
GetType(db, name) == GetTypeCleaned(db, CleanTypeName(name))

\* the list AddPrimitiveTypes iterates
PrimitiveTypes ==
    << << "i","n","t" >>,
       << "i","n","t","8" >>,
       << "u","i","n","t","8" >>,
       << "u","i","n","t" >>,
       << "i","n","t","1","6" >>,
       << "u","i","n","t","1","6" >>,
       << "i","n","t","3","2" >>,
       << "u","i","n","t","3","2" >>,
       << "i","n","t","6","4" >>,
       << "u","i","n","t","6","4" >>,
       << "f","l","o","a","t" >>,
       << "d","o","u","b","l","e" >>,
       << "b","o","o","l" >> >>

\* a seeding that leaves an entry of the name in place
AddPrimitiveType_KeepExisting(db, primtype) ==
    IF primtype \in DOMAIN db
    THEN db
    ELSE MapSet(db, primtype,
                [ DBType_initEmpty(NewDBType, primtype)
                    EXCEPT !.isPrimitive = TRUE ])

\* one turn of the loop of AddPrimitiveTypes
AddPrimitiveType(db, primtype) ==
    MapSet(db, primtype,
           [ DBType_initEmpty(NewDBType, primtype) EXCEPT !.isPrimitive = TRUE ])

RECURSIVE AddPrimitiveTypesFrom(_, _)
AddPrimitiveTypesFrom(db, i) ==
    IF i > Len(PrimitiveTypes)
    THEN db
    ELSE AddPrimitiveTypesFrom(AddPrimitiveType(db, PrimitiveTypes[i]), i + 1)

\* AddPrimitiveTypes()
AddPrimitiveTypes(db) == AddPrimitiveTypesFrom(db, 1)

\* a load that reads the declaration into the entry of the name, when
\* there is one
AddTypeFromUnreal_Merge(db, key, value) ==
    MapSet(db, key,
           DBType_fromJSON(IF key \in DOMAIN db THEN db[key] ELSE NewDBType,
                           key, value))

\* one turn of the loop of AddTypesFromUnreal
AddTypeFromUnreal(db, key, value) ==
    MapSet(db, key, DBType_fromJSON(NewDBType, key, value))

\* AddTypesFromUnreal(input)
RECURSIVE AddTypesFromUnreal(_, _)
AddTypesFromUnreal(db, input) ==
    IF input = << >>
    THEN db
    ELSE AddTypesFromUnreal(
             AddTypeFromUnreal(db, Head(input).key, Head(input).value),
             Tail(input))

\* a removal that takes the types derived from a type of the module along
RemoveTypesInModule_Cascade(db, module) ==
    [ n \in { k \in DOMAIN db :
                /\ ~LooseEq(db[k].declaredModule, module)
                /\ ~(/\ db[k].supertype \in DOMAIN db
                     /\ LooseEq(db[db[k].supertype].declaredModule, module)) }
        |-> db[n] ]

\* RemoveTypesInModule(module): deleting from a Map while iterating it
\* still visits every entry
RemoveTypesInModule(db, module) ==
    [ n \in { k \in DOMAIN db : ~LooseEq(db[k].declaredModule, module) }
        |-> db[n] ]

\* bulkLoad(moduleId, declarations) of the script files: the declaration
\* schema of the engine dump, and the module the declaration comes from
AddTypeFromScript(db, module, key, value) ==
    MapSet(db, key,
           [ DBType_fromJSON(NewDBType, key, value) EXCEPT
               !.declaredModule = module,
               !.siblingTypes   = IF Has(value, "siblingTypes")
                                  THEN value.siblingTypes ELSE @ ])

RECURSIVE AddTypesFromScript(_, _, _)
AddTypesFromScript(db, module, input) ==
    IF input = << >>
    THEN db
    ELSE AddTypesFromScript(
             AddTypeFromScript(db, module, Head(input).key, Head(input).value),
             module, Tail(input))

(***************************************************************************)
(* Inheritance resolver.  A DBType handed out by the registry is named by  *)
(* its key: within one query no entry is replaced or deleted, so two       *)
(* references are the same object exactly when their keys are equal.       *)
(***************************************************************************)
\* DBType.hasExtendTypes
hasExtendTypes(type) ==
    TruthyStr(type.supertype) \/ TruthyArr(type.siblingTypes)

\* a walk that resolves the siblings before the supertype
ExtendNames_SiblingsFirst(type) ==
    (IF TruthyArr(type.siblingTypes) THEN type.siblingTypes ELSE << >>)
    \o (IF TruthyStr(type.supertype) THEN << type.supertype >> ELSE << >>)

\* a walk that resolves the siblings from the last to the first
RECURSIVE Reversed(_)
Reversed(seq) ==
    IF seq = << >> THEN << >> ELSE Append(Reversed(Tail(seq)), Head(seq))

ExtendNames_LastSiblingFirst(type) ==
    (IF TruthyStr(type.supertype) THEN << type.supertype >> ELSE << >>)
    \o (IF TruthyArr(type.siblingTypes)
        THEN Reversed(type.siblingTypes) ELSE << >>)

\* the names one turn of the while loop of getCombineTypesList resolves, in
\* the order it resolves them: the supertype, then the siblings
ExtendNames(type) ==
    (IF TruthyStr(type.supertype) THEN << type.supertype >> ELSE << >>)
    \o (IF TruthyArr(type.siblingTypes) THEN type.siblingTypes ELSE << >>)

\* a push without the test extend.includes
CombinePush_Unguarded(acc, r) ==
    [ db      |-> r.db,
      status  |-> IF r.status = "TypeError" THEN "TypeError" ELSE "ok",
      list    |-> IF r.status = "type" THEN Append(acc.list, r.key)
                  ELSE acc.list,
      created |-> acc.created \cup r.created ]

\* if (dbsuper && !extend.includes(dbsuper)) extend.push(dbsuper), for
\* the outcome r of the GetType; an exception ends the walk.
\* acc = [db, status, list, created].
CombinePush(acc, r) ==
    [ db      |-> r.db,
      status  |-> IF r.status = "TypeError" THEN "TypeError" ELSE "ok",
      list    |-> IF r.status = "type" /\ ~InSeq(r.key, acc.list)
                  THEN Append(acc.list, r.key)
                  ELSE acc.list,
      created |-> acc.created \cup r.created ]

\* GetType on each name in turn
RECURSIVE CombineResolve(_, _)
CombineResolve(acc, names) ==
    IF names = << >> \/ acc.status # "ok"
    THEN acc
    ELSE CombineResolve(CombinePush(acc, GetType(acc.db, Head(names))),
                        Tail(names))

\* the while loop of getCombineTypesList
RECURSIVE CombineLoop(_, _)
CombineLoop(acc, checkIndex) ==
    IF acc.status # "ok" \/ checkIndex > Len(acc.list)
    THEN acc
    ELSE CombineLoop(
             CombineResolve(acc, ExtendNames(acc.db[acc.list[checkIndex]])),
             checkIndex + 1)

\* DBType.getCombineTypesList on the type stored under key this
getCombineTypesList(db, this) ==
    CombineLoop([ db |-> db, status |-> "ok", list |-> << this >>,
                  created |-> {} ], 1)

\* what getCombineTypesList returns, as a query: the list of the keys
combineTypesListOf(c) ==
    Returned(c.db, IF c.status = "ok" THEN "list" ELSE "TypeError",
             c.list, c.created)

\* the index of the first method called name, 0 when there is none
RECURSIVE FirstMethodNamed(_, _, _)
FirstMethodNamed(methods, name, i) ==
    IF i > Len(methods)
    THEN 0
    ELSE IF methods[i].name = name
    THEN i
    ELSE FirstMethodNamed(methods, name, i + 1)

\* getMethod(name, false): the first own method of that name, << m >>, or
\* << >> for null
getMethodAt(type, i) == IF i = 0 THEN << >> ELSE << type.methods[i] >>

getMethodOwn(type, name) ==
    getMethodAt(type, FirstMethodNamed(type.methods, name, 1))

\* for (let extend of this.getCombineTypesList()): the first type of the
\* list, from i on, with a method of that name
RECURSIVE getMethodExtend(_, _, _)
getMethodExtend(c, name, i) ==
    IF i > Len(c.list)
    THEN Outcome(c.db, "null", << >>, << >>, c.created)
    ELSE IF getMethodOwn(c.db[c.list[i]], name) # << >>
    THEN Outcome(c.db, "method", c.list[i],
                 getMethodOwn(c.db[c.list[i]], name), c.created)
    ELSE getMethodExtend(c, name, i + 1)

getMethodCombined(c, name) ==
    IF c.status = "TypeError"
    THEN Outcome(c.db, "TypeError", << >>, << >>, c.created)
    ELSE getMethodExtend(c, name, 1)

getMethodRecurse(db, this, name, own) ==
    IF own # << >>
    THEN Outcome(db, "method", this, own, {})
    ELSE IF ~hasExtendTypes(db[this])
    THEN Outcome(db, "null", << >>, << >>, {})
    ELSE getMethodCombined(getCombineTypesList(db, this), name)

\* DBType.getMethod(name) on the type stored under key this.  The key of the
\* outcome names the type whose methods hold the DBMethod returned.
getMethod(db, this, name) ==
    getMethodRecurse(db, this, name, getMethodOwn(db[this], name))

\* an allMethods that skips nothing
allMethodsPush_KeepAll(acc, key, mth) ==
    [ out   |-> Append(acc.out, mth),
      names |-> MapSet(acc.names, mth.name, key) ]

\* the body of the inner loop of allMethods, for the method mth of the type
\* stored under key.  acc = [out, names]: outMethods, and methodNames as a
\* function from the names to the keys of the declaring types.
allMethodsPush(acc, key, mth) ==
    IF mth.name \in DOMAIN acc.names /\ acc.names[mth.name] # key
    THEN acc
    ELSE [ out   |-> Append(acc.out, mth),
           names |-> MapSet(acc.names, mth.name, key) ]

\* for (let mth of type.methods)
RECURSIVE allMethodsOfType(_, _, _, _)
allMethodsOfType(acc, key, methods, i) ==
    IF i > Len(methods)
    THEN acc
    ELSE allMethodsOfType(allMethodsPush(acc, key, methods[i]),
                          key, methods, i + 1)

\* for (let type of this.getCombineTypesList())
RECURSIVE allMethodsOfList(_, _, _)
allMethodsOfList(acc, c, i) ==
    IF i > Len(c.list)
    THEN acc
    ELSE allMethodsOfList(
             allMethodsOfType(acc, c.list[i], c.db[c.list[i]].methods, 1),
             c, i + 1)

allMethodsCombined(c) ==
    IF c.status = "TypeError"
    THEN Returned(c.db, "TypeError", << >>, c.created)
    ELSE Returned(c.db, "list",
                  allMethodsOfList([ out |-> << >>, names |-> << >> ],
                                   c, 1).out,
                  c.created)

\* DBType.allMethods() on the type stored under key this
allMethods(db, this) ==
    IF ~hasExtendTypes(db[this])
    THEN Returned(db, "list", db[this].methods, {})
    ELSE allMethodsCombined(getCombineTypesList(db, this))

\* a concatenation that leaves out a property whose name is taken
allPropertiesConcat_Dedup(props, more) ==
    props \o SelectSeq(more, LAMBDA p :
                 \A i \in 1..Len(props) : props[i].name # p.name)

\* props = props.concat(extend.properties)
allPropertiesConcat(props, more) == props \o more

\* for (let extend of this.getCombineTypesList())
RECURSIVE allPropertiesOfList(_, _, _)
allPropertiesOfList(props, c, i) ==
    IF i > Len(c.list)
    THEN props
    ELSE allPropertiesOfList(
             allPropertiesConcat(props, c.db[c.list[i]].properties), c, i + 1)

allPropertiesCombined(c) ==
    IF c.status = "TypeError"
    THEN Returned(c.db, "TypeError", << >>, c.created)
    ELSE Returned(c.db, "list", allPropertiesOfList(<< >>, c, 1), c.created)

\* DBType.allProperties() on the type stored under key this
allProperties(db, this) ==
    IF ~hasExtendTypes(db[this])
    THEN Returned(db, "list", db[this].properties, {})
    ELSE allPropertiesCombined(getCombineTypesList(db, this))

\* the index of the first property called name, 0 when there is none
RECURSIVE FirstPropertyNamed(_, _, _)
FirstPropertyNamed(properties, name, i) ==
    IF i > Len(properties)
    THEN 0
    ELSE IF properties[i].name = name
    THEN i
    ELSE FirstPropertyNamed(properties, name, i + 1)

\* getProperty(name, false): the first own property of that name, << p >>,
\* or << >> for null
getPropertyAt(type, i) == IF i = 0 THEN << >> ELSE << type.properties[i] >>

getPropertyOwn(type, name) ==
    getPropertyAt(type, FirstPropertyNamed(type.properties, name, 1))

\* for (let extend of this.getCombineTypesList()): the first type of the
\* list, from i on, with a property of that name
RECURSIVE getPropertyExtend(_, _, _)
getPropertyExtend(c, name, i) ==
    IF i > Len(c.list)
    THEN Returned(c.db, "null", << >>, c.created)
    ELSE IF getPropertyOwn(c.db[c.list[i]], name) # << >>
    THEN Returned(c.db, "property", getPropertyOwn(c.db[c.list[i]], name),
                  c.created)
    ELSE getPropertyExtend(c, name, i + 1)

getPropertyCombined(c, name) ==
    IF c.status = "TypeError"
    THEN Returned(c.db, "TypeError", << >>, c.created)
    ELSE getPropertyExtend(c, name, 1)

getPropertyRecurse(db, this, name, own) ==
    IF own # << >>
    THEN Returned(db, "property", own, {})
    ELSE IF ~hasExtendTypes(db[this])
    THEN Returned(db, "null", << >>, {})
    ELSE getPropertyCombined(getCombineTypesList(db, this), name)

\* DBType.getProperty(name) on the type stored under key this
getProperty(db, this, name) ==
    getPropertyRecurse(db, this, name, getPropertyOwn(db[this], name))

\* a walk that follows the supertype only
inheritsFromNext_SupertypeOnly(it) ==
    IF TruthyStr(it.supertype) THEN << it.supertype >> ELSE << >>

\* the name the loop of inheritsFrom resolves next: the supertype, or else
\* the unrealsuper, << name >>, or << >> at the break
inheritsFromNext(it) ==
    IF TruthyStr(it.supertype)
    THEN << it.supertype >>
    ELSE IF TruthyStr(it.unrealsuper)
    THEN << it.unrealsuper >>
    ELSE << >>

\* the prefixes of the accessor methods
GetterPrefix == << "g","e","t","_" >>
SetterPrefix == << "s","e","t","_" >>

\* if (setter && setter.args.length >= 1) return setter.args[0].typename;
\* return null, for the outcome setter of the second getMethod
accessorFromSetter(setter, created) ==
    IF setter.status = "TypeError"
    THEN Returned(setter.db, "TypeError", << >>, created \cup setter.created)
    ELSE IF setter.status = "method" /\ Len(setter.method[1].args) >= 1
    THEN Returned(setter.db, "string", setter.method[1].args[1].typename,
                  created \cup setter.created)
    ELSE Returned(setter.db, "null", << >>, created \cup setter.created)

\* if (getter) return getter.returnType, for the outcome getter of the
\* first getMethod; otherwise the setter is looked up
accessorFromGetter(this, name, getter) ==
    IF getter.status = "TypeError"
    THEN Returned(getter.db, "TypeError", << >>, getter.created)
    ELSE IF getter.status = "method"
    THEN Returned(getter.db, "string", getter.method[1].returnType,
                  getter.created)
    ELSE accessorFromSetter(getMethod(getter.db, this, SetterPrefix \o name),
                            getter.created)

\* an accessor type that asks the setter first
getPropertyAccessorType_SetterFirst(db, this, name) ==
    IF /\ getMethod(db, this, SetterPrefix \o name).status = "method"
       /\ Len(getMethod(db, this, SetterPrefix \o name).method[1].args) >= 1
    THEN accessorFromSetter(getMethod(db, this, SetterPrefix \o name), {})
    ELSE accessorFromGetter(this, name,
                            getMethod(db, this, GetterPrefix \o name))

\* DBType.getPropertyAccessorType(name) on the type stored under key this
getPropertyAccessorType(db, this, name) ==
    accessorFromGetter(this, name, getMethod(db, this, GetterPrefix \o name))

(***************************************************************************)
(* Namespaces                                                              *)
(***************************************************************************)
NamespaceSigil == << "_","_" >>

\* the type with what the if (this.isNS) of resolveNamespace assigns
resolveNamespaceShadow(db, type) ==
    IF TruthyFlag(type.isNS)
    THEN [ type EXCEPT
             !.shadowedNamespace =
                 FlagOf(Substring(type.typename, 2) \in DOMAIN db),
             !.rawName = Substring(type.typename, 2) ]
    ELSE type

\* a resolveNamespace that finds no namespace shadowed
resolveNamespace_Unshadowed(db, this) ==
    MapSet(db, this,
           [ db[this] EXCEPT
               !.isNS = FlagOf(StartsWith(db[this].typename, NamespaceSigil)),
               !.namespaceResolved = "true",
               !.shadowedNamespace = "false" ])

\* DBType.resolveNamespace() on the type stored under key this
resolveNamespace(db, this) ==
    MapSet(db, this,
           resolveNamespaceShadow(db,
               [ db[this] EXCEPT
                   !.isNS = FlagOf(StartsWith(db[this].typename,
                                              NamespaceSigil)),
                   !.namespaceResolved = "true" ]))

\* a query that resolves the namespace again every time
resolvedNamespace_Again(db, this) == resolveNamespace(db, this)

\* if (!this.namespaceResolved) this.resolveNamespace()
resolvedNamespace(db, this) ==
    IF ~TruthyFlag(db[this].namespaceResolved)
    THEN resolveNamespace(db, this)
    ELSE db

\* this.isNS && this.shadowedNamespace
isShadowedNamespaceOf(type) ==
    IF TruthyFlag(type.isNS) THEN type.shadowedNamespace ELSE type.isNS

\* DBType.isNamespace() on the type stored under key this
isNamespace(db, this) ==
    Returned(resolvedNamespace(db, this), "boolean",
             resolvedNamespace(db, this)[this].isNS, {})

\* DBType.isShadowedNamespace() on the type stored under key this
isShadowedNamespace(db, this) ==
    Returned(resolvedNamespace(db, this), "boolean",
             isShadowedNamespaceOf(resolvedNamespace(db, this)[this]), {})

(***************************************************************************)
(* Inputs: type names, engine dumps, script modules                        *)
(***************************************************************************)
S_int == << "i","n","t" >>
S_int8 == << "i","n","t","8" >>
S_bool == << "b","o","o","l" >>
S_Foo == << "F","o","o" >>
S_Zed == << "Z","e","d" >>
S_T == << "T" >>
S_K == << "K" >>
S_V == << "V" >>
S_A == << "A" >>
S_B == << "B" >>
S_C == << "C" >>
S_E == << "E" >>
S_H == << "H" >>
S_X == << "X" >>
S_Y == << "Y" >>
S_foo == << "f","o","o" >>
S_bar == << "b","a","r" >>
S_base == << "b","a","s","e" >>
S_get == << "g","e","t" >>
S_value == << "v","a","l","u","e" >>
S_size == << "s","i","z","e" >>
S_key == << "k","e","y" >>
S_item == << "i","t","e","m" >>
S_bits == << "b","i","t","s" >>
S_moduleA == << "m","o","d","u","l","e","A" >>
S_moduleB == << "m","o","d","u","l","e","B" >>

\* base<a> and base<a,b>
Generic1(base, a) == base \o << "<" >> \o a \o << ">" >>
Generic2(base, a, b) == base \o << "<" >> \o a \o << "," >> \o b \o << ">" >>

\* the decoration the scripts put around a type name
Decorations(n) ==
    { n,
      ConstPrefix \o n,
      n \o << "&" >>,
      n \o << "@" >>,
      ConstPrefix \o n \o << "@", "&" >>,
      << " " >> \o n \o << " ", "&" >> }

S_FooInt == Generic1(S_Foo, S_int)
S_FooIntBool == Generic2(S_Foo, S_int, S_bool)
S_IntInt == Generic1(S_int, S_int)
S_ZedInt == Generic1(S_Zed, S_int)

\* "*\n Doc\n * x": a documentation comment with its stars
RawDoc == << "*", "\n", " ", "D", "o", "c", "\n", " ", "*", " ", "x" >>

\* a method declaration of the dump: name and return type
JsonMethod(name, ret) ==
    [ key |-> name, value |-> [ name |-> name, return |-> ret ] ]

\* Foo<T>: value : T, size : const int&, get(const T& v, int) : T& const
JsonFooV1 ==
    [ properties |-> << [ key |-> S_value, value |-> << S_T >> ],
                        [ key   |-> S_size,
                          value |-> << ConstPrefix \o S_int \o << "&" >>,
                                       RawDoc >> ] >>,
      methods    |-> << [ key   |-> S_get,
                          value |-> [ name   |-> S_get,
                                      return |-> S_T \o << "&" >>,
                                      args   |-> <<
                                        [ type |-> ConstPrefix \o S_T
                                                     \o << "&" >>,
                                          name |-> S_V ],
                                        [ type |-> S_int ] >>,
                                      const  |-> TRUE,
                                      doc    |-> RawDoc ] ] >>,
      subtypes   |-> << S_T >>,
      isStruct   |-> TRUE,
      doc        |-> RawDoc ]

\* Foo<K,V>, redeclared: key : K, item : V@, no methods
JsonFooV2 ==
    [ properties |-> << [ key |-> S_key, value |-> << S_K >> ],
                        [ key |-> S_item, value |-> << S_V \o << "@" >> >> ] >>,
      subtypes   |-> << S_K, S_V >> ]

\* a declaration named like a primitive
JsonInt ==
    [ properties |-> << [ key |-> S_bits, value |-> << S_int8 >> ] >> ]

\* Foo<T> of a script module: value : T
JsonFooScript ==
    [ properties |-> << [ key |-> S_value, value |-> << S_T >> ] >>,
      subtypes   |-> << S_T >> ]

JsonA == [ methods |-> << JsonMethod(S_foo, S_int), JsonMethod(S_base, S_int) >> ]
JsonB == [ inherits |-> S_A, methods |-> << JsonMethod(S_foo, S_bool) >> ]
JsonC == [ siblingTypes |-> << S_X, S_Y >> ]
JsonE == [ inherits |-> S_Y, siblingTypes |-> << S_X >> ]
JsonH == [ inherits |-> S_FooInt \o << "@" >> ]
JsonX == [ methods |-> << JsonMethod(S_bar, S_int) >> ]
JsonY == [ methods |-> << JsonMethod(S_bar, S_bool), JsonMethod(S_foo, S_bool) >> ]

\* the dumps the engine sends (MessageType.DebugDatabase)
UnrealDumps ==
    { [ id |-> "DumpV1", types |-> << [ key |-> S_Foo, value |-> JsonFooV1 ] >> ],
      [ id |-> "DumpV2", types |-> << [ key |-> S_Foo, value |-> JsonFooV2 ] >> ],
      [ id |-> "DumpInt", types |-> << [ key |-> S_int, value |-> JsonInt ] >> ] }

\* the script modules and what they declare
ScriptModules ==
    { [ id |-> S_moduleA,
        types |-> << [ key |-> S_Foo, value |-> JsonFooScript ],
                     [ key |-> S_A, value |-> JsonA ] >> ],
      [ id |-> S_moduleB,
        types |-> << [ key |-> S_B, value |-> JsonB ],
                     [ key |-> S_C, value |-> JsonC ],
                     [ key |-> S_E, value |-> JsonE ],
                     [ key |-> S_H, value |-> JsonH ],
                     [ key |-> S_X, value |-> JsonX ],
                     [ key |-> S_Y, value |-> JsonY ] >> ] }

\* the names looked up
GetNames ==
    Decorations(S_FooInt)
    \cup { S_Foo, S_FooIntBool, S_IntInt, S_ZedInt, S_int, S_B }

\* the methods asked for
MethodQueries ==
    { << S_B, S_foo >>, << S_B, S_base >>, << S_C, S_bar >>, << S_C, S_foo >>,
      << S_E, S_bar >>, << S_H, S_get >>, << S_A, S_bar >>, << S_X, S_bar >> }

(***************************************************************************)
(* Inputs of the resolver: a hierarchy with a shared root, an engine       *)
(* supertype, overloads, a sibling named twice, a name that is never       *)
(* declared, and two types that derive from each other                     *)
(***************************************************************************)
S_R == << "R" >>
S_D == << "D" >>
S_G == << "G" >>
S_P == << "P" >>
S_Q == << "Q" >>
S_hp == << "h","p" >>
S_id == << "i","d" >>
S_no == << "n","o" >>
S_void == << "v","o","i","d" >>
S_moduleC == << "m","o","d","u","l","e","C" >>
\* a method declaration with arguments; key tells overloads apart
JsonMethodArgs(key, name, ret, args) ==
    [ key |-> key, value |-> [ name |-> name, return |-> ret, args |-> args ] ]

JsonProperty(name, type) == [ key |-> name, value |-> << type >> ]

\* R: base() : int, get_hp() : int8; key : int
JsonRoot ==
    [ methods    |-> << JsonMethod(S_base, S_int),
                        JsonMethod(GetterPrefix \o S_hp, S_int8) >>,
      properties |-> << JsonProperty(S_key, S_int) >> ]

\* A, whose engine supertype is R: foo() : int, foo(int8 v) : bool,
\* set_id(int8 v); value : int, size : int
JsonLeft ==
    [ supertype  |-> S_R,
      methods    |-> << JsonMethod(S_foo, S_int),
                        JsonMethodArgs(S_foo \o << "2" >>, S_foo, S_bool,
                                       << [ type |-> S_int8, name |-> S_V ] >>),
                        JsonMethodArgs(SetterPrefix \o S_id,
                                       SetterPrefix \o S_id, S_void,
                                       << [ type |-> S_int8, name |-> S_V ] >>)
                     >>,
      properties |-> << JsonProperty(S_value, S_int),
                        JsonProperty(S_size, S_int) >> ]

\* X, derived from R: foo() : int8, bar() : int, get_id() : bool, set_no();
\* value : bool, item : int
JsonRight ==
    [ inherits   |-> S_R,
      methods    |-> << JsonMethod(S_foo, S_int8),
                        JsonMethod(S_bar, S_int),
                        JsonMethod(GetterPrefix \o S_id, S_bool),
                        JsonMethodArgs(SetterPrefix \o S_no,
                                       SetterPrefix \o S_no, S_void, << >>) >>,
      properties |-> << JsonProperty(S_value, S_bool),
                        JsonProperty(S_item, S_int) >> ]

\* D, derived from A, with the siblings X, X@, G and Zed<int>: bar() : bool,
\* set_hp(bool v); size : bool
JsonDiamond ==
    [ inherits     |-> S_A,
      siblingTypes |-> << S_X, S_X \o << "@" >>, S_G, S_ZedInt >>,
      methods      |-> << JsonMethod(S_bar, S_bool),
                          JsonMethodArgs(SetterPrefix \o S_hp,
                                         SetterPrefix \o S_hp, S_void,
                                         << [ type |-> S_bool,
                                              name |-> S_V ] >>) >>,
      properties   |-> << JsonProperty(S_size, S_bool) >> ]

\* P, derived from Q: get() : int; key : int
JsonPing ==
    [ inherits   |-> S_Q,
      methods    |-> << JsonMethod(S_get, S_int) >>,
      properties |-> << JsonProperty(S_key, S_int) >> ]

\* Q, derived from P, with itself as a sibling: get() : bool, base() : int;
\* key : bool
JsonPong ==
    [ inherits     |-> S_P,
      siblingTypes |-> << S_Q >>,
      methods      |-> << JsonMethod(S_get, S_bool),
                          JsonMethod(S_base, S_int) >>,
      properties   |-> << JsonProperty(S_key, S_bool) >> ]

\* E, derived from P, with the sibling X: item : bool
JsonLasso ==
    [ inherits     |-> S_P,
      siblingTypes |-> << S_X >>,
      properties   |-> << JsonProperty(S_item, S_bool) >> ]

\* the script modules of the hierarchy
ResolverModules ==
    { [ id |-> S_moduleA,
        types |-> << [ key |-> S_R, value |-> JsonRoot ],
                     [ key |-> S_A, value |-> JsonLeft ],
                     [ key |-> S_X, value |-> JsonRight ] >> ],
      [ id |-> S_moduleB,
        types |-> << [ key |-> S_D, value |-> JsonDiamond ] >> ],
      [ id |-> S_moduleC,
        types |-> << [ key |-> S_E, value |-> JsonLasso ],
                     [ key |-> S_P, value |-> JsonPing ],
                     [ key |-> S_Q, value |-> JsonPong ] >> ] }

\* the types the queries of the resolver are made on
ResolverTypes == { S_R, S_A, S_X, S_D, S_E, S_P, S_Q }

\* the properties asked for
PropertyNames == { S_value, S_size, S_key, S_item, S_hp }

\* the properties whose accessors are asked for
AccessorNames == { S_hp, S_id, S_no, S_key }

\* the types the walks followed turn by turn start from
WalkTypes == { S_R, S_A, S_X, S_E, S_P, S_Q }

(***************************************************************************)
(* Inputs of the namespaces: the engine declares the namespaces __Math and *)
(* __Vec and the type Vec, a script module declares the type Math          *)
(***************************************************************************)
S_Math == << "M","a","t","h" >>
S_Vec == << "V","e","c" >>
S_NsMath == NamespaceSigil \o S_Math
S_NsVec == NamespaceSigil \o S_Vec

JsonPlain == [ isStruct |-> FALSE ]

NamespaceDumps ==
    { [ id |-> "DumpNs",
        types |-> << [ key |-> S_NsMath, value |-> JsonPlain ],
                     [ key |-> S_NsVec, value |-> JsonPlain ],
                     [ key |-> S_Vec, value |-> JsonPlain ] >> ] }

NamespaceModules ==
    { [ id |-> S_moduleA,
        types |-> << [ key |-> S_Math, value |-> JsonPlain ] >> ] }

\* the types asked whether they are namespaces
NamespaceTypes == { S_NsMath, S_NsVec, S_Vec, S_Math }

(***************************************************************************)
(* Inputs of the generic names: a generic name as the argument of a        *)
(* generic name, and names whose angle brackets do not balance             *)
(***************************************************************************)
\* Foo<Foo<int>> and Zed<Foo<int>>
S_FooFooInt == Generic1(S_Foo, S_FooInt)
S_ZedFooInt == Generic1(S_Zed, S_FooInt)

\* Foo<int>>, Foo<int and Foo<<int>
S_FooIntClosedTwice == S_FooInt \o << ">" >>
S_FooIntOpen == S_Foo \o << "<" >> \o S_int
S_FooOpenedTwice == S_Foo \o << "<", "<" >> \o S_int \o << ">" >>

NestedNames == { S_FooFooInt, S_ZedFooInt }

MalformedNames == { S_FooIntClosedTwice, S_FooIntOpen, S_FooOpenedTwice }

(***************************************************************************)
(* The connection to the engine (server.ts).  Sockets are numbered in the  *)
(* order connect_unreal makes them; unreal = 0 is the variable holding     *)
(* null.  destroyed: the sockets that are no longer live; pending: the     *)
(* events emitted and not yet delivered to their handlers, as              *)
(* << socket, event >>; timers: the setTimeout(connect_unreal, 5000) not   *)
(* yet fired; scheduled[s]: how many of them the handlers of socket s set; *)
(* delivered: the events the handlers have run for.                        *)
(***************************************************************************)
MaxSockets == 3

\* before connect_unreal() of line 134
NoEngine ==
    [ unreal    |-> 0,
      made      |-> 0,
      destroyed |-> {},
      pending   |-> {},
      delivered |-> {},
      timers    |-> 0,
      scheduled |-> [ s \in 1..MaxSockets |-> 0 ] ]

\* socket.destroy(): a live socket is closed and emits "close"; a socket
\* already destroyed stays as it is
destroy(e, s) ==
    IF s = 0 \/ s \in e.destroyed
    THEN e
    ELSE [ e EXCEPT !.destroyed = @ \cup { s },
                    !.pending   = @ \cup { << s, "close" >> } ]

\* if (unreal != null) { unreal.write(buildDisconnect()); unreal.destroy(); }
\* unreal = new Socket; ...; unreal.connect(27099, "localhost", ...)
connect_unreal(e) ==
    [ destroy(e, e.unreal) EXCEPT !.made = e.made + 1, !.unreal = e.made + 1 ]

\* the body the "error" and the "close" handler of socket s share:
\* if (unreal != null)
\*     { unreal.destroy(); unreal = null; setTimeout(connect_unreal, 5000); }
\* unreal is the variable of the module, not the socket the handler was
\* registered on
destroyAndReconnect(e, s) ==
    IF e.unreal # 0
    THEN [ destroy(e, e.unreal) EXCEPT
             !.unreal    = 0,
             !.timers    = @ + 1,
             !.scheduled = [ @ EXCEPT ![s] = @ + 1 ] ]
    ELSE e

\* unreal.on("error", ...) and unreal.on("close", ...) of socket s
unreal_on_error(e, s) == destroyAndReconnect(e, s)
unreal_on_close(e, s) == destroyAndReconnect(e, s)

\* the sockets that are live
LiveSockets(e) == (1..e.made) \ e.destroyed

(***************************************************************************)
(* The state machine.  Every operation runs to completion on the single    *)
(* thread of the server; an exception leaves the registry as the           *)
(* operation left it when it was thrown.                                   *)
(***************************************************************************)
VARIABLES
    database,   \* the registry
    call        \* the last operation, its arguments and its outcome; removed
                \* is the set of keys whose entries it deleted, result the
                \* array, string or boolean a query of the resolver returned,
                \* checkIndex the position of a combination walk under way,
                \* check the key of the dbCheck of an inheritsFrom under way
    ,
    engine      \* the connection to the engine: the variable unreal, the
                \* sockets made so far and their events not yet delivered,
                \* the reconnect timers pending

vars == << database, call, engine >>

NoCall ==
    [ op |-> "none", name |-> << >>, member |-> << >>, module |-> << >>,
      input |-> "", status |-> "done", key |-> << >>, method |-> << >>,
      created |-> {}, removed |-> {}, result |-> << >>, checkIndex |-> 0,
      check |-> << >> ]

Init ==
    /\ database = EmptyDatabase
    /\ call = NoCall
    /\ engine = connect_unreal(NoEngine)

\* the operation c ends with outcome out
Finish(c, out) ==
    /\ database' = out.db
    /\ UNCHANGED engine
    /\ call' = [ c EXCEPT !.status  = out.status,
                          !.key     = out.key,
                          !.method  = out.method,
                          !.created = out.created,
                          !.removed = DOMAIN database \ DOMAIN out.db ]

\* the keys of a dump or of a module's declarations
KeysOf(input) == { input[i].key : i \in 1..Len(input) }

DoGetType(name) ==
    Finish([ NoCall EXCEPT !.op = "GetType", !.name = name ],
           GetType(database, name))

DoAddPrimitiveTypes ==
    Finish([ NoCall EXCEPT !.op = "AddPrimitiveTypes" ],
           Outcome(AddPrimitiveTypes(database), "done", << >>, << >>,
                   { PrimitiveTypes[i] : i \in 1..Len(PrimitiveTypes) }))

DoAddTypesFromUnreal(dump) ==
    Finish([ NoCall EXCEPT !.op = "AddTypesFromUnreal", !.input = dump.id ],
           Outcome(AddTypesFromUnreal(database, dump.types),
                   "done", << >>, << >>, KeysOf(dump.types)))

DoAddTypesFromScript(mod) ==
    Finish([ NoCall EXCEPT !.op = "AddTypesFromScript", !.module = mod.id ],
           Outcome(AddTypesFromScript(database, mod.id, mod.types),
                   "done", << >>, << >>, KeysOf(mod.types)))

DoRemoveTypesInModule(module) ==
    Finish([ NoCall EXCEPT !.op = "RemoveTypesInModule", !.module = module ],
           Outcome(RemoveTypesInModule(database, module),
                   "done", << >>, << >>, {}))

\* getMethod on a type the caller got from the registry
DoGetMethod(this, name) ==
    /\ this \in DOMAIN database
    /\ Finish([ NoCall EXCEPT !.op = "getMethod", !.name = this,
                              !.member = name ],
              getMethod(database, this, name))

Next ==
    \/ \E name \in GetNames : DoGetType(name)
    \/ DoAddPrimitiveTypes
    \/ \E dump \in UnrealDumps : DoAddTypesFromUnreal(dump)
    \/ \E mod \in ScriptModules : DoAddTypesFromScript(mod)
    \/ \E mod \in ScriptModules : DoRemoveTypesInModule(mod.id)
    \/ \E q \in MethodQueries : DoGetMethod(q[1], q[2])

Spec == Init /\ [][Next]_vars

(***************************************************************************)
(* The resolver: the script modules of the hierarchy come and go, and the  *)
(* queries run on the types the registry holds                             *)
(***************************************************************************)
\* the query c ends with what out says
FinishQuery(c, out) ==
    /\ database' = out.db
    /\ UNCHANGED engine
    /\ call' = [ c EXCEPT !.status  = out.status,
                          !.result  = out.result,
                          !.created = out.created ]

DoAllMethods(this) ==
    /\ this \in DOMAIN database
    /\ FinishQuery([ NoCall EXCEPT !.op = "allMethods", !.name = this ],
                   allMethods(database, this))

DoGetCombineTypesList(this) ==
    /\ this \in DOMAIN database
    /\ FinishQuery([ NoCall EXCEPT !.op = "getCombineTypesList",
                                   !.name = this ],
                   combineTypesListOf(getCombineTypesList(database, this)))

DoAllProperties(this) ==
    /\ this \in DOMAIN database
    /\ FinishQuery([ NoCall EXCEPT !.op = "allProperties", !.name = this ],
                   allProperties(database, this))

DoGetProperty(this, name) ==
    /\ this \in DOMAIN database
    /\ FinishQuery([ NoCall EXCEPT !.op = "getProperty", !.name = this,
                                   !.member = name ],
                   getProperty(database, this, name))

DoGetPropertyAccessorType(this, name) ==
    /\ this \in DOMAIN database
    /\ FinishQuery([ NoCall EXCEPT !.op = "getPropertyAccessorType",
                                   !.name = this, !.member = name ],
                   getPropertyAccessorType(database, this, name))

NextResolver ==
    \/ \E mod \in ResolverModules : DoAddTypesFromScript(mod)
    \/ \E mod \in ResolverModules : DoRemoveTypesInModule(mod.id)
    \/ \E this \in ResolverTypes : DoAllMethods(this)
    \/ \E this \in ResolverTypes : DoGetCombineTypesList(this)
    \/ \E this \in ResolverTypes : DoAllProperties(this)
    \/ \E this \in ResolverTypes : \E name \in PropertyNames :
            DoGetProperty(this, name)
    \/ \E this \in ResolverTypes : \E name \in AccessorNames :
            DoGetPropertyAccessorType(this, name)
    \/ \E this \in ResolverTypes : \E name \in { S_foo, S_bar, S_base } :
            DoGetMethod(this, name)

SpecResolver == Init /\ [][NextResolver]_vars

(***************************************************************************)
(* The combination walk, one turn of its while loop at a time.  The        *)
(* server has one thread and a query runs to completion: nothing else      *)
(* happens while a walk is under way, and a walk under way goes on.        *)
(***************************************************************************)
Idle == call.status # "running"

\* let extend = [ this ]; let checkIndex = 0 (the model counts from 1)
WalkStart(this) ==
    /\ Idle
    /\ this \in DOMAIN database
    /\ UNCHANGED engine
    /\ call' = [ NoCall EXCEPT !.op = "getCombineTypesList", !.name = this,
                               !.status = "running", !.result = << this >>,
                               !.checkIndex = 1 ]
    /\ UNCHANGED database

\* the walk goes on with what one turn of the loop made of it
WalkOn(acc) ==
    /\ database' = acc.db
    /\ UNCHANGED engine
    /\ call' = [ call EXCEPT !.result = acc.list,
                             !.checkIndex = @ + 1,
                             !.status = IF acc.status = "ok"
                                        THEN "running" ELSE "TypeError",
                             !.created = acc.created ]

\* one turn of while (checkIndex < extend.length)
WalkTurn ==
    /\ call.status = "running"
    /\ call.checkIndex <= Len(call.result)
    /\ \E acc \in { CombineResolve(
                        [ db |-> database, status |-> "ok",
                          list |-> call.result, created |-> call.created ],
                        ExtendNames(database[call.result[call.checkIndex]])) } :
           WalkOn(acc)

\* the loop ends: return extend
WalkReturn ==
    /\ call.status = "running"
    /\ call.checkIndex > Len(call.result)
    /\ UNCHANGED engine
    /\ call' = [ call EXCEPT !.status = "list" ]
    /\ UNCHANGED database

NextWalk ==
    \/ \E mod \in ResolverModules : Idle /\ DoAddTypesFromScript(mod)
    \/ \E mod \in ResolverModules : Idle /\ DoRemoveTypesInModule(mod.id)
    \/ \E this \in WalkTypes : WalkStart(this)
    \/ WalkTurn
    \/ WalkReturn

SpecWalk ==
    Init /\ [][NextWalk]_vars /\ WF_vars(WalkTurn) /\ WF_vars(WalkReturn)

(***************************************************************************)
(* inheritsFrom, one turn of its while loop at a time                      *)
(***************************************************************************)
\* let dbCheck = GetType(checktype); if (!dbCheck) return false; it = this
inheritsFromBegin(c, r) ==
    /\ database' = r.db
    /\ UNCHANGED engine
    /\ call' = [ c EXCEPT
                   !.status  = IF r.status = "TypeError" THEN "TypeError"
                               ELSE IF r.status = "null" THEN "boolean"
                               ELSE "running",
                   !.result  = IF r.status = "null" THEN FALSE ELSE << >>,
                   !.key     = IF r.status = "type" THEN c.name ELSE << >>,
                   !.check   = r.key,
                   !.created = r.created ]

InheritsStart(this, checktype) ==
    /\ Idle
    /\ this \in DOMAIN database
    /\ \E r \in { GetType(database, checktype) } :
         inheritsFromBegin([ NoCall EXCEPT !.op = "inheritsFrom",
                                           !.name = this,
                                           !.member = checktype ], r)

\* return b
inheritsFromReturn(b) ==
    /\ UNCHANGED engine
    /\ call' = [ call EXCEPT !.status = "boolean", !.result = b ]
    /\ UNCHANGED database

\* it = GetType(name); continue: a null ends the loop at while (it)
inheritsFromContinue(r) ==
    /\ database' = r.db
    /\ UNCHANGED engine
    /\ call' = [ call EXCEPT
                   !.status  = IF r.status = "TypeError" THEN "TypeError"
                               ELSE IF r.status = "null" THEN "boolean"
                               ELSE "running",
                   !.result  = IF r.status = "null" THEN FALSE ELSE << >>,
                   !.key     = r.key,
                   !.created = call.created \cup r.created ]

\* one turn of while (it)
InheritsTurn ==
    /\ call.op = "inheritsFrom"
    /\ call.status = "running"
    /\ IF database[call.key].typename = database[call.check].typename
       THEN inheritsFromReturn(TRUE)
       ELSE IF inheritsFromNext(database[call.key]) = << >>
       THEN inheritsFromReturn(FALSE)
       ELSE \E r \in { GetType(database,
                               inheritsFromNext(database[call.key])[1]) } :
                inheritsFromContinue(r)

\* the candidates of inheritsFrom
CheckTypes ==
    { S_R, ConstPrefix \o S_A \o << "&" >>, S_X, S_G, S_Q, S_D }

NextInherits ==
    \/ \E mod \in ResolverModules : Idle /\ DoAddTypesFromScript(mod)
    \/ \E mod \in ResolverModules : Idle /\ DoRemoveTypesInModule(mod.id)
    \/ \E this \in ResolverTypes : \E checktype \in CheckTypes :
           InheritsStart(this, checktype)
    \/ InheritsTurn

SpecInherits == Init /\ [][NextInherits]_vars

\* the loop of inheritsFrom runs on the single thread of the server: once
\* begun, its next turn is taken
SpecInheritsFair == SpecInherits /\ WF_vars(InheritsTurn)

(***************************************************************************)
(* The namespaces: the engine dump and the script module come and go, and  *)
(* the types are asked whether they are namespaces                         *)
(***************************************************************************)
DoIsNamespace(this) ==
    /\ this \in DOMAIN database
    /\ FinishQuery([ NoCall EXCEPT !.op = "isNamespace", !.name = this ],
                   isNamespace(database, this))

DoIsShadowedNamespace(this) ==
    /\ this \in DOMAIN database
    /\ FinishQuery([ NoCall EXCEPT !.op = "isShadowedNamespace",
                                   !.name = this ],
                   isShadowedNamespace(database, this))

NextNamespace ==
    \/ \E dump \in NamespaceDumps : DoAddTypesFromUnreal(dump)
    \/ \E mod \in NamespaceModules : DoAddTypesFromScript(mod)
    \/ \E mod \in NamespaceModules : DoRemoveTypesInModule(mod.id)
    \/ \E this \in NamespaceTypes : DoIsNamespace(this)
    \/ \E this \in NamespaceTypes : DoIsShadowedNamespace(this)

SpecNamespace == Init /\ [][NextNamespace]_vars

(***************************************************************************)
(* The generic names: the engine dumps and the primitives are loaded, and  *)
(* nested, malformed and plain generic names are looked up                 *)
(***************************************************************************)
NextGeneric ==
    \/ \E dump \in UnrealDumps : DoAddTypesFromUnreal(dump)
    \/ DoAddPrimitiveTypes
    \/ \E name \in NestedNames \cup MalformedNames \cup { S_FooInt, S_Foo } :
           DoGetType(name)

SpecGeneric == Init /\ [][NextGeneric]_vars

(***************************************************************************)
(* The engine connection: the sockets are lost, their events are           *)
(* delivered to the handlers in any order, the reconnect timers fire, and  *)
(* a live socket delivers the dumps of the engine                          *)
(***************************************************************************)
\* the connection fails or breaks: the socket is destroyed with an error
\* and emits "error" and "close"
LoseWithError(s) ==
    /\ s \in LiveSockets(engine)
    /\ engine' = [ engine EXCEPT
                     !.destroyed = @ \cup { s },
                     !.pending   = @ \cup { << s, "error" >>,
                                            << s, "close" >> } ]
    /\ UNCHANGED << database, call >>

\* the engine closes the connection: the socket emits "close" only
LoseByClose(s) ==
    /\ s \in LiveSockets(engine)
    /\ engine' = destroy(engine, s)
    /\ UNCHANGED << database, call >>

\* the event loop takes an event off its queue
Taken(e, s, ev) ==
    [ e EXCEPT !.pending   = @ \ { << s, ev >> },
               !.delivered = @ \cup { << s, ev >> } ]

DeliverError(s) ==
    /\ << s, "error" >> \in engine.pending
    /\ engine' = unreal_on_error(Taken(engine, s, "error"), s)
    /\ UNCHANGED << database, call >>

DeliverClose(s) ==
    /\ << s, "close" >> \in engine.pending
    /\ engine' = unreal_on_close(Taken(engine, s, "close"), s)
    /\ UNCHANGED << database, call >>

\* a timer of setTimeout(connect_unreal, 5000) fires
ReconnectTimer ==
    /\ engine.timers > 0
    /\ engine.made < MaxSockets
    /\ engine' = [ connect_unreal(engine) EXCEPT !.timers = @ - 1 ]
    /\ UNCHANGED << database, call >>

\* unreal.on("data", ...) of a live socket, a MessageType.DebugDatabase
\* message: typedb.AddTypesFromUnreal(dbObj)
OnData(s, dump) ==
    /\ s \in LiveSockets(engine)
    /\ DoAddTypesFromUnreal(dump)

NextUnreal ==
    \/ \E s \in 1..MaxSockets : LoseWithError(s)
    \/ \E s \in 1..MaxSockets : LoseByClose(s)
    \/ \E s \in 1..MaxSockets : DeliverError(s)
    \/ \E s \in 1..MaxSockets : DeliverClose(s)
    \/ ReconnectTimer
    \/ \E s \in 1..MaxSockets : \E dump \in UnrealDumps : OnData(s, dump)

SpecUnreal == Init /\ [][NextUnreal]_vars

(***************************************************************************)
(* Properties                                                              *)
(***************************************************************************)
PrimitiveNames == { PrimitiveTypes[i] : i \in 1..Len(PrimitiveTypes) }

\* the entry under key k is a template instance (only createTemplateInstance
\* sets subTypes to null)
IsInstance(db, k) == k \in DOMAIN db /\ db[k].subTypes = NULL_ARR

\* the declarations of the dump called id
DumpTypes(id) == (CHOOSE d \in UnrealDumps : d.id = id).types

\* name is generic syntax over a base that db holds with a list of
\* placeholders whose length is not the number of names between the brackets
IsCountMismatch(db, name) ==
    /\ name \notin DOMAIN db
    /\ TemplateMatch(name).found
    /\ TemplateMatch(name).basetype \in DOMAIN db
    /\ TruthyArr(db[TemplateMatch(name).basetype].subTypes)
    /\ Len(db[TemplateMatch(name).basetype].subTypes)
         # Len(Split(TemplateMatch(name).inner))

\* C1: GetType never raises: whatever the registry holds and whatever the
\* name, it ends by returning a DBType or null.
C1_GetTypeNeverRaises ==
    call.op = "GetType" => call.status \in { "type", "null" }

\* C2: GetType of a generic name whose number of type names differs from the
\* number of placeholders of its base returns null and adds no entry, so that
\* the name is still a miss afterwards.
C2_CountMismatchReturnsNull ==
    (call.op = "GetType" /\ IsCountMismatch(database, CleanTypeName(call.name)))
        => (call.status = "null" /\ call.created = {})

\* C3: a template instance, once in the registry, is still there, the same
\* object, after any RemoveTypesInModule and any bulk load (the removal or
\* the redeclaration of its origin among them).
C3_InstanceSurvivesOrigin ==
    [][ \A k \in DOMAIN database :
          (IsInstance(database, k)
           /\ call'.op \in { "RemoveTypesInModule", "AddTypesFromUnreal",
                             "AddTypesFromScript" })
          => (k \in DOMAIN database'
              /\ database'[k] = database[k]
              /\ k \notin call'.created) ]_vars

\* C4: GetType of the name of a template instance the registry holds, bare or
\* wrapped in const / & / @, returns that very entry, constructs nothing and
\* leaves the registry as it was.
C4_InstanceMemoized ==
    [][ \A k \in DOMAIN database :
          (IsInstance(database, k)
           /\ call'.op = "GetType"
           /\ call'.name \in Decorations(k))
          => (database' = database
              /\ call'.status = "type"
              /\ call'.key = k
              /\ call'.created = {}) ]_vars

\* C4 witness: a decorated lookup answered from an instance made earlier
C4_Witness ==
    /\ call.op = "GetType"
    /\ call.name = ConstPrefix \o S_FooInt \o << "@", "&" >>
    /\ call.status = "type"
    /\ call.key = S_FooInt
    /\ call.created = {}
    /\ IsInstance(database, S_FooInt)

\* the names between the brackets of the generic name k, and its base
ActualTypesOf(k) == MapTrim(Split(TemplateMatch(k).inner))
BaseOf(k) == TemplateMatch(k).basetype

\* a type name of the base and the type name at the same place of the
\* instance: where the former is placeholder i, bare or decorated, the
\* latter is actual name i
Substituted(fromType, toType, placeholders, actuals) ==
    \A i \in 1..Len(placeholders) :
        fromType \in Decorations(placeholders[i]) => toType = actuals[i]

\* the arguments of a method of the instance against those of the base
ArgsSubstituted(baseArgs, instArgs, placeholders, actuals) ==
    /\ Len(instArgs) = Len(baseArgs)
    /\ \A i \in 1..Len(baseArgs) :
         /\ instArgs[i].name = baseArgs[i].name
         /\ Substituted(baseArgs[i].typename, instArgs[i].typename,
                        placeholders, actuals)

\* the members of the instance against those of the base: as many, in the
\* same order, under the same names, with the placeholders replaced
MembersSubstituted(base, inst, actuals) ==
    /\ Len(inst.properties) = Len(base.properties)
    /\ \A i \in 1..Len(base.properties) :
         /\ inst.properties[i].name = base.properties[i].name
         /\ Substituted(base.properties[i].typename,
                        inst.properties[i].typename, base.subTypes, actuals)
    /\ Len(inst.methods) = Len(base.methods)
    /\ \A i \in 1..Len(base.methods) :
         /\ inst.methods[i].name = base.methods[i].name
         /\ Substituted(base.methods[i].returnType,
                        inst.methods[i].returnType, base.subTypes, actuals)
         /\ ArgsSubstituted(base.methods[i].args, inst.methods[i].args,
                            base.subTypes, actuals)

\* C5: the instance an operation has just made of base<A1..An> has the
\* members of the base, in the same order, and every property type, return
\* type and argument type that is placeholder Pi, bare or decorated, is Ai.
C5_PlaceholdersReplaced ==
    \A k \in call.created :
        IsInstance(database, k)
            => MembersSubstituted(database[BaseOf(k)], database[k],
                                  ActualTypesOf(k))

\* C5 witness: Foo<int,bool> made from Foo<K,V>: key : K is int and
\* item : V@ is bool
C5_Witness ==
    /\ call.op = "GetType"
    /\ call.created = { S_FooIntBool }
    /\ database[S_Foo].subTypes = << S_K, S_V >>
    /\ database[S_FooIntBool].properties[1].typename = S_int
    /\ database[S_FooIntBool].properties[2].typename = S_bool

\* C6: RemoveTypesInModule(m) leaves no entry declared in m, deletes nothing
\* else, and leaves every other entry as it was, one whose supertype or
\* siblings name a deleted type included.
C6_RemoveExactlyModule ==
    [][ call'.op = "RemoveTypesInModule"
        => /\ \A k \in DOMAIN database' :
                database'[k].declaredModule # call'.module
           /\ \A k \in DOMAIN database :
                database[k].declaredModule # call'.module
                    => (k \in DOMAIN database' /\ database'[k] = database[k])
           /\ DOMAIN database' \subseteq DOMAIN database
           /\ call'.created = {} ]_vars

\* C6 witness: moduleA is removed with its type A, and B of moduleB, whose
\* supertype is A, stays
C6_Witness ==
    /\ call.op = "RemoveTypesInModule"
    /\ call.module = S_moduleA
    /\ S_A \in call.removed
    /\ S_A \notin DOMAIN database
    /\ S_B \in DOMAIN database
    /\ database[S_B].supertype = S_A

\* C7: after AddTypesFromUnreal the entry of every name of the dump is the
\* type built from the declaration of the dump alone, whatever was stored
\* under the name before, and every other entry is as it was.
C7_LastWriterWins ==
    [][ call'.op = "AddTypesFromUnreal"
        => /\ \A i \in 1..Len(DumpTypes(call'.input)) :
                /\ DumpTypes(call'.input)[i].key \in DOMAIN database'
                /\ database'[DumpTypes(call'.input)[i].key]
                     = DBType_fromJSON(NewDBType,
                                       DumpTypes(call'.input)[i].key,
                                       DumpTypes(call'.input)[i].value)
           /\ DOMAIN database'
                = DOMAIN database \cup KeysOf(DumpTypes(call'.input))
           /\ \A k \in DOMAIN database \ KeysOf(DumpTypes(call'.input)) :
                database'[k] = database[k] ]_vars

\* C7 witness: Foo<K,V> has replaced the Foo<T> of which the instance
\* Foo<int> with its property value is left
C7_Witness ==
    /\ call.op = "AddTypesFromUnreal"
    /\ call.input = "DumpV2"
    /\ IsInstance(database, S_FooInt)
    /\ database[S_FooInt].properties[1].name = S_value
    /\ Len(database[S_Foo].properties) = 2
    /\ database[S_Foo].properties[1].name = S_key
    /\ database[S_Foo].methods = << >>

\* C8: after AddPrimitiveTypes every primitive name has an entry without
\* properties and methods and with isPrimitive set, and a second
\* AddPrimitiveTypes leaves the set of keys as it is.
C8_SeedIdempotent ==
    call.op = "AddPrimitiveTypes"
        => /\ \A p \in PrimitiveNames :
                /\ p \in DOMAIN database
                /\ database[p].properties = << >>
                /\ database[p].methods = << >>
                /\ database[p].isPrimitive = TRUE
           /\ DOMAIN AddPrimitiveTypes(database) = DOMAIN database
           /\ AddPrimitiveTypes(database) = database

\* C8 witness: the primitives seeded into a registry that holds other
\* types as well
C8_Witness ==
    /\ call.op = "AddPrimitiveTypes"
    /\ S_Foo \in DOMAIN database
    /\ S_int \in DOMAIN database
    /\ database[S_int].isPrimitive
    /\ Cardinality(DOMAIN database) > Len(PrimitiveTypes)

\* C9 as stated: a primitive entry stays a primitive entry over every
\* operation.
C9_PrimitivesStay ==
    [][ \A p \in PrimitiveNames :
          (p \in DOMAIN database /\ database[p].isPrimitive)
          => (p \in DOMAIN database' /\ database'[p].isPrimitive) ]_vars

\* C9 amended: a primitive entry stays a primitive entry over every
\* operation except a bulk load whose batch declares its name.
C9_PrimitivesStayUnlessRedeclared ==
    [][ \A p \in PrimitiveNames :
          (/\ p \in DOMAIN database
           /\ database[p].isPrimitive
           /\ ~(/\ call'.op \in { "AddTypesFromUnreal", "AddTypesFromScript" }
                /\ p \in call'.created))
          => (p \in DOMAIN database' /\ database'[p].isPrimitive) ]_vars

\* C9 witness: a module has been removed, and bulk loads and lookups have
\* happened, with all the primitives in place
C9_Witness ==
    /\ call.op = "RemoveTypesInModule"
    /\ call.removed # {}
    /\ IsInstance(database, S_FooInt)
    /\ \A p \in PrimitiveNames :
         p \in DOMAIN database /\ database[p].isPrimitive

\* the type stored under k has a method called name
Declares(db, k, name) ==
    \E i \in 1..Len(db[k].methods) : db[k].methods[i].name = name

\* the first method called name of the type stored under k
Declaration(db, k, name) ==
    db[k].methods[CHOOSE i \in 1..Len(db[k].methods) :
                      /\ db[k].methods[i].name = name
                      /\ \A j \in 1..(i - 1) : db[k].methods[j].name # name]

\* the call has returned the declaration of the first type of list that
\* declares the member, null when none does
ReturnsFirstOf(list) ==
    IF \E i \in 1..Len(list) : Declares(database, list[i], call.member)
    THEN \E i \in 1..Len(list) :
           /\ Declares(database, list[i], call.member)
           /\ \A j \in 1..(i - 1) : ~Declares(database, list[j], call.member)
           /\ call.status = "method"
           /\ call.key = list[i]
           /\ call.method = << Declaration(database, list[i], call.member) >>
    ELSE call.status = "null" /\ call.method = << >>

\* C10: a getMethod that returns hands back the type's own declaration of
\* the name when it has one, and otherwise that of the first type of the
\* combination list that declares it; B, derived from A, answers foo with
\* its own foo, and C with the siblings X, Y answers bar with that of X.
C10_GetMethodPrecedence ==
    (call.op = "getMethod" /\ call.status # "TypeError")
    => /\ Declares(database, call.name, call.member)
            => /\ call.status = "method"
               /\ call.key = call.name
               /\ call.method
                    = << Declaration(database, call.name, call.member) >>
       /\ ReturnsFirstOf(getCombineTypesList(database, call.name).list)
       /\ (call.name = S_B /\ call.member = S_foo)
            => (call.key = S_B /\ call.method[1].returnType = S_bool)
       /\ (/\ call.name = S_C
           /\ call.member = S_bar
           /\ database[S_C].siblingTypes = << S_X, S_Y >>
           /\ { S_X, S_Y } \subseteq DOMAIN database)
            => (call.key = S_X /\ call.method[1].returnType = S_int)

\* C10 witness: C, which has no bar, has answered bar with the bar of X,
\* the first of its siblings X and Y, which both declare bar
C10_Witness ==
    /\ call.op = "getMethod"
    /\ call.name = S_C
    /\ call.member = S_bar
    /\ database[S_C].siblingTypes = << S_X, S_Y >>
    /\ ~Declares(database, S_C, S_bar)
    /\ Declares(database, S_X, S_bar)
    /\ Declares(database, S_Y, S_bar)
    /\ call.status = "method"
    /\ call.key = S_X
    /\ call.method = << Declaration(database, S_X, S_bar) >>

\* the list getCombineTypesList gives for the type of the call
CombinationOfCall == getCombineTypesList(database, call.name).list

\* the methods called name among methods, in their order
MethodsNamed(methods, name) == SelectSeq(methods, LAMBDA m : m.name = name)

\* the names the methods of the types of list have
MethodNamesOf(list) ==
    UNION { { database[list[i]].methods[k].name :
                k \in 1..Len(database[list[i]].methods) } :
            i \in 1..Len(list) }

\* the result holds, of the methods called name, those of the first type of
\* list that declares the name, all of them, and no other
BoundToFirst(list, name) ==
    \E i \in 1..Len(list) :
        /\ Declares(database, list[i], name)
        /\ \A j \in 1..(i - 1) : ~Declares(database, list[j], name)
        /\ MethodsNamed(call.result, name)
             = MethodsNamed(database[list[i]].methods, name)

AllMethodsOver(list) ==
    /\ \A name \in MethodNamesOf(list) : BoundToFirst(list, name)
    /\ \A k \in 1..Len(call.result) :
         call.result[k].name \in MethodNamesOf(list)

\* C11: allMethods of a type with a supertype or siblings holds, for every
\* method name declared in the combination list, all the methods of that
\* name of the first type of the list that declares it, and none of that
\* name of a later type.
C11_AllMethodsFirstDeclarer ==
    (/\ call.op = "allMethods"
     /\ call.status = "list"
     /\ hasExtendTypes(database[call.name]))
    => AllMethodsOver(CombinationOfCall)

\* C11 witness: allMethods of D over [D, A, X, R]: bar of D, both foo of A,
\* get_id of X, and neither the bar nor the foo of X
C11_Witness ==
    /\ call.op = "allMethods"
    /\ call.name = S_D
    /\ CombinationOfCall = << S_D, S_A, S_X, S_R >>
    /\ Len(MethodsNamed(call.result, S_foo)) = 2
    /\ MethodsNamed(call.result, S_foo)
         = MethodsNamed(database[S_A].methods, S_foo)
    /\ Len(MethodsNamed(call.result, S_bar)) = 1
    /\ MethodsNamed(call.result, S_bar)[1].returnType = S_bool
    /\ Len(MethodsNamed(call.result, GetterPrefix \o S_id)) = 1
    /\ Len(call.result) = 9

\* the names a type declares as its bases: the supertype, then the
\* siblings as they are listed
DeclaredBases(type) ==
    (IF type.supertype \in { UNDEF, NULL, << >> }
     THEN << >> ELSE << type.supertype >>)
    \o (IF type.siblingTypes \in { UNDEF_ARR, NULL_ARR }
        THEN << >> ELSE type.siblingTypes)

\* the q-th base of the p-th type of list resolves to the entry under k
IsBaseAt(list, p, q, k) ==
    /\ GetType(database, DeclaredBases(database[list[p]])[q]).status = "type"
    /\ GetType(database, DeclaredBases(database[list[p]])[q]).key = k

BasePlaces(list) ==
    UNION { { << p, q >> : q \in 1..Len(DeclaredBases(database[list[p]])) } :
            p \in 1..Len(list) }

\* the first place, over the types of list in their order and over the bases
\* of each in theirs, at which k is named comes before the first place at
\* which l is
NamedBefore(list, k, l) ==
    \E a \in BasePlaces(list) :
        /\ IsBaseAt(list, a[1], a[2], k)
        /\ \A b \in BasePlaces(list) :
             IsBaseAt(list, b[1], b[2], l)
                => (a[1] < b[1] \/ (a[1] = b[1] /\ a[2] < b[2]))

\* list is the breadth-first combination list of the type under this
IsCombinationList(list, this) ==
    /\ Len(list) >= 1
    /\ list[1] = this
    /\ \A i \in 1..Len(list) : list[i] \in DOMAIN database
    /\ \A i, j \in 1..Len(list) : i # j => list[i] # list[j]
    /\ \A a \in BasePlaces(list) : \A k \in DOMAIN database :
         IsBaseAt(list, a[1], a[2], k) => InSeq(k, list)
    /\ \A i \in 2..Len(list) :
         \E a \in BasePlaces(list) :
             a[1] < i /\ IsBaseAt(list, a[1], a[2], list[i])
    /\ \A i, j \in 2..Len(list) :
         i < j => NamedBefore(list, list[i], list[j])

BasesOfAll(from) ==
    { k \in DOMAIN database :
        \E f \in from : \E q \in 1..Len(DeclaredBases(database[f])) :
            CleanTypeName(DeclaredBases(database[f])[q]) = k }

\* the entries reached from the entries of from over one base or more
RECURSIVE ReachedFrom(_, _)
ReachedFrom(from, seen) ==
    IF BasesOfAll(from) \subseteq seen
    THEN seen
    ELSE ReachedFrom(BasesOfAll(from) \ seen, seen \cup BasesOfAll(from))

\* the supertype and sibling names lead from the type under this into a
\* cycle
LeadsIntoCycle(this) ==
    \E k \in { this } \cup ReachedFrom({ this }, {}) :
        k \in ReachedFrom({ k }, {})

\* C13 as stated: a combination walk that starts at a type whose references
\* lead into a cycle never returns.
C13_CycleNeverReturns ==
    (call.op = "getCombineTypesList" /\ LeadsIntoCycle(call.name))
        => call.status # "list"

\* C13 amended: the test extend.includes guards the walk: the list never
\* holds an entry twice, so it is never longer than the registry, and
\* every walk under way returns, cycle or no cycle.
C13_WalkReturns ==
    /\ [](call.op = "getCombineTypesList"
            => /\ Len(call.result) <= Cardinality(DOMAIN database)
               /\ \A i, j \in 1..Len(call.result) :
                    i # j => call.result[i] # call.result[j])
    /\ (call.status = "running") ~> (call.status = "list")

\* C13 witness: the walk from E, derived from P, which is derived from Q,
\* which is derived from P and its own sibling, has returned E, P, X, Q, R
C13_Witness ==
    /\ call.op = "getCombineTypesList"
    /\ call.name = S_E
    /\ LeadsIntoCycle(S_E)
    /\ database[S_E].supertype = S_P
    /\ database[S_P].supertype = S_Q
    /\ database[S_Q].supertype = S_P
    /\ call.status = "list"
    /\ call.checkIndex = 6
    /\ call.result = << S_E, S_P, S_X, S_Q, S_R >>

\* the properties of the types of list, from the i-th on, one type after
\* the other
RECURSIVE PropertiesFrom(_, _)
PropertiesFrom(list, i) ==
    IF i > Len(list)
    THEN << >>
    ELSE database[list[i]].properties \o PropertiesFrom(list, i + 1)

\* the call has returned the first property of props called as asked,
\* null when there is none
ReturnsFirstProperty(props) ==
    IF \E i \in 1..Len(props) : props[i].name = call.member
    THEN \E i \in 1..Len(props) :
           /\ props[i].name = call.member
           /\ \A j \in 1..(i - 1) : props[j].name # call.member
           /\ call.status = "property"
           /\ call.result = << props[i] >>
    ELSE call.status = "null" /\ call.result = << >>

\* C14: allProperties of a type without supertype and siblings is its own
\* properties; otherwise it is the properties of the types of the
\* combination list one after the other, the own ones first and none left
\* out for its name; getProperty returns the first property of that name
\* in this order, or null.
C14_PropertiesInListOrder ==
    /\ (call.op = "allProperties" /\ call.status = "list")
         => /\ ~hasExtendTypes(database[call.name])
                 => call.result = database[call.name].properties
            /\ hasExtendTypes(database[call.name])
                 => /\ call.result = PropertiesFrom(CombinationOfCall, 1)
                    /\ SubSeq(call.result, 1,
                              Len(database[call.name].properties))
                         = database[call.name].properties
    /\ (call.op = "getProperty" /\ call.status # "TypeError")
         => ReturnsFirstProperty(PropertiesFrom(CombinationOfCall, 1))

\* C14 witness: allProperties of D over [D, A, X, R]: size of D, value and
\* size of A, value and item of X, key of R
C14_Witness ==
    /\ call.op = "allProperties"
    /\ call.name = S_D
    /\ CombinationOfCall = << S_D, S_A, S_X, S_R >>
    /\ [ i \in 1..Len(call.result) |-> call.result[i].name ]
         = << S_size, S_value, S_size, S_value, S_item, S_key >>
    /\ call.result[1].typename = S_bool
    /\ call.result[3].typename = S_int

\* the entry that follows the entry under k in the walk of inheritsFrom:
\* the one its supertype resolves to or, when it has no supertype, the one
\* its unrealsuper resolves to; { } when it has neither or the name does not
\* resolve
FollowedBy(k) ==
    IF database[k].supertype \notin { UNDEF, NULL, << >> }
    THEN { l \in DOMAIN database :
             /\ GetType(database, database[k].supertype).status = "type"
             /\ GetType(database, database[k].supertype).key = l }
    ELSE IF database[k].unrealsuper \notin { UNDEF, NULL, << >> }
    THEN { l \in DOMAIN database :
             /\ GetType(database, database[k].unrealsuper).status = "type"
             /\ GetType(database, database[k].unrealsuper).key = l }
    ELSE { }

\* the entries the walk from the entries of from passes
RECURSIVE WalkedFrom(_, _)
WalkedFrom(from, seen) ==
    IF from \subseteq seen
    THEN seen
    ELSE WalkedFrom(UNION { FollowedBy(k) : k \in from }, seen \cup from)

\* C15: an inheritsFrom that returns, returns true exactly when the
\* canonical name of the candidate is the typename of the origin or of a
\* type the walk over supertype, or unrealsuper where there is no
\* supertype, passes.
C15_InheritsFromChain ==
    (call.op = "inheritsFrom" /\ call.status = "boolean")
    => (call.result
          = (\E k \in WalkedFrom({ call.name }, {}) :
                database[k].typename = CleanTypeName(call.member)))

\* C15 witness: D inherits from R: D is derived from A, whose engine
\* supertype is R
C15_Witness ==
    /\ call.op = "inheritsFrom"
    /\ call.status = "boolean"
    /\ call.name = S_D
    /\ call.member = S_R
    /\ { S_D, S_A, S_R } \subseteq DOMAIN database
    /\ database[S_D].supertype = S_A
    /\ database[S_A].supertype = UNDEF
    /\ database[S_A].unrealsuper = S_R
    /\ call.key = S_R
    /\ call.result = TRUE

\* what getMethod finds for the getter and for the setter of the property
\* of the call
GetterOfCall == getMethod(database, call.name, GetterPrefix \o call.member)
SetterOfCall == getMethod(database, call.name, SetterPrefix \o call.member)

\* C16: getPropertyAccessorType returns the return type of get_<name> when
\* getMethod finds one; otherwise the type of the first argument of
\* set_<name> when getMethod finds one with an argument; otherwise null.
\* D, with a set_hp of its own and the get_hp of R at the end of its
\* combination list, answers with the return type of the getter.
C16_AccessorType ==
    (call.op = "getPropertyAccessorType" /\ call.status # "TypeError")
    => /\ GetterOfCall.status = "method"
            => /\ call.status = "string"
               /\ call.result = GetterOfCall.method[1].returnType
       /\ (/\ GetterOfCall.status = "null"
           /\ SetterOfCall.status = "method"
           /\ Len(SetterOfCall.method[1].args) >= 1)
            => /\ call.status = "string"
               /\ call.result = SetterOfCall.method[1].args[1].typename
       /\ (/\ GetterOfCall.status = "null"
           /\ \/ SetterOfCall.status = "null"
              \/ /\ SetterOfCall.status = "method"
                 /\ SetterOfCall.method[1].args = << >>)
            => (call.status = "null" /\ call.result = << >>)
       /\ (/\ call.name = S_D
           /\ call.member = S_hp
           /\ { S_A, S_X, S_R } \subseteq DOMAIN database)
            => call.result = S_int8

\* C16 witness: D has set_hp(bool v) of its own, the R at the end of its
\* combination list has get_hp() : int8, and the accessor type of hp is int8
C16_Witness ==
    /\ call.op = "getPropertyAccessorType"
    /\ call.name = S_D
    /\ call.member = S_hp
    /\ S_R \in DOMAIN database
    /\ Declares(database, S_D, SetterPrefix \o S_hp)
    /\ ~Declares(database, S_D, GetterPrefix \o S_hp)
    /\ Declares(database, S_R, GetterPrefix \o S_hp)
    /\ call.status = "string"
    /\ call.result = S_int8

\* the name starts with the namespace sigil
HasSigil(name) == Len(name) >= 2 /\ name[1] = "_" /\ name[2] = "_"

\* the name without its first two characters
Unsigiled(name) == SubSeq(name, 3, Len(name))

\* the answer of the call is what the claim says it is, for a registry db
NamespaceAnswer(db) ==
    /\ call.op = "isNamespace"
         => call.result = FlagOf(HasSigil(call.name))
    /\ call.op = "isShadowedNamespace"
         => call.result = FlagOf(/\ HasSigil(call.name)
                                 /\ Unsigiled(call.name) \in DOMAIN db)

\* C17 as stated: isNamespace tells whether the name has the sigil, and
\* isShadowedNamespace whether it has and the registry holds a type of the
\* name without the sigil.
C17_ShadowedWhenPlainExists ==
    call.op \in { "isNamespace", "isShadowedNamespace" }
        => NamespaceAnswer(database)

\* C17 amended: so it is for the first query of a type, against the
\* registry at the time of that query.
C17_ShadowedAtFirstQuery ==
    [][ (/\ call'.op \in { "isNamespace", "isShadowedNamespace" }
         /\ database[call'.name].namespaceResolved # "true")
        => /\ call'.op = "isNamespace"
                => call'.result = FlagOf(HasSigil(call'.name))
           /\ call'.op = "isShadowedNamespace"
                => call'.result
                     = FlagOf(/\ HasSigil(call'.name)
                              /\ Unsigiled(call'.name) \in DOMAIN database)
       ]_vars

\* C17 witness: __Math, asked for the first time while Math is declared,
\* is a shadowed namespace
C17_Witness ==
    /\ call.op = "isShadowedNamespace"
    /\ call.name = S_NsMath
    /\ S_Math \in DOMAIN database
    /\ call.result = "true"
    /\ database[S_NsMath].rawName = S_Math

\* the namespace fields of a type
NamespaceFields(type) ==
    << type.isNS, type.namespaceResolved, type.shadowedNamespace,
       type.rawName >>

\* C18: the first query assigns the namespace fields of a type, and from
\* then on no load and no removal of another name changes them, and every
\* query answers from them and changes nothing.
C18_NamespaceCached ==
    [][ /\ call'.op \in { "isNamespace", "isShadowedNamespace" }
            => database'[call'.name].namespaceResolved = "true"
        /\ \A k \in DOMAIN database :
             (/\ database[k].namespaceResolved = "true"
              /\ k \in DOMAIN database'
              /\ k \notin call'.created)
             => /\ NamespaceFields(database'[k]) = NamespaceFields(database[k])
                /\ (call'.op = "isNamespace" /\ call'.name = k)
                     => call'.result = database[k].isNS
                /\ (call'.op = "isShadowedNamespace" /\ call'.name = k)
                     => call'.result
                          = (IF database[k].isNS = "true"
                             THEN database[k].shadowedNamespace ELSE "false")
      ]_vars

\* C18 witness: __Math was asked before Math was declared: it goes on
\* answering that it is not shadowed now that Math is there
C18_Witness ==
    /\ call.op = "isShadowedNamespace"
    /\ call.name = S_NsMath
    /\ S_Math \in DOMAIN database
    /\ call.result = "false"
    /\ database[S_NsMath].shadowedNamespace = "false"
    /\ database[S_NsMath].namespaceResolved = "true"

\* C19: GetType of Foo<Foo<int>>, Foo being a generic type with the one
\* placeholder T, returns an instance of Foo, stored under that name, in
\* which every member typed T has the type Foo<int>.
C19_NestedGenericInstance ==
    (/\ call.op = "GetType"
     /\ call.name = S_FooFooInt
     /\ S_Foo \in DOMAIN database
     /\ database[S_Foo].subTypes = << S_T >>)
    => /\ call.status = "type"
       /\ call.key = S_FooFooInt
       /\ MembersSubstituted(database[S_Foo], database[S_FooFooInt],
                             << S_FooInt >>)

\* C20: GetType of a name whose angle brackets do not balance returns null
\* and stores nothing.
C20_MalformedIsMiss ==
    (call.op = "GetType" /\ call.name \in MalformedNames)
        => (call.status = "null" /\ call.created = {})


\* a flag held in a field without initializer, as a condition reads it: a
\* field never assigned is false
SameFlag(a, b) == TruthyFlag(a) <=> TruthyFlag(b)

\* the scalar attributes and flags of the instance are those of the base
TypeAttributesKept(base, inst) ==
    /\ SameFlag(inst.isStruct, base.isStruct)
    /\ SameFlag(inst.isEnum, base.isEnum)
    /\ inst.isPrimitive = base.isPrimitive
    /\ inst.isDelegate = base.isDelegate
    /\ inst.isEvent = base.isEvent
    /\ inst.supertype = base.supertype
    /\ inst.declaredModule = base.declaredModule
    /\ inst.documentation = base.documentation

\* every method and property of the instance has the flags of the member of
\* the base at the same place
MemberFlagsKept(base, inst) ==
    /\ Len(inst.methods) = Len(base.methods)
    /\ \A i \in 1..Len(base.methods) :
         /\ inst.methods[i].isConst = base.methods[i].isConst
         /\ inst.methods[i].isConstructor = base.methods[i].isConstructor
         /\ inst.methods[i].isEvent = base.methods[i].isEvent
         /\ inst.methods[i].isProtected = base.methods[i].isProtected
         /\ inst.methods[i].isPrivate = base.methods[i].isPrivate
    /\ Len(inst.properties) = Len(base.properties)
    /\ \A i \in 1..Len(base.properties) :
         /\ SameFlag(inst.properties[i].isProtected,
                     base.properties[i].isProtected)
         /\ SameFlag(inst.properties[i].isPrivate,
                     base.properties[i].isPrivate)

\* C21: the instance an operation has just made has the scalar attributes
\* and flags of its generic base (isStruct, isEnum, isPrimitive, isDelegate,
\* isEvent, supertype, declaredModule, documentation), and each of its
\* methods and properties has the flags of the member of the base (isConst,
\* isConstructor, isEvent, isProtected, isPrivate).
C21_InstanceCarriesFlags ==
    \A k \in call.created :
        IsInstance(database, k)
            => /\ TypeAttributesKept(database[BaseOf(k)], database[k])
               /\ MemberFlagsKept(database[BaseOf(k)], database[k])


\* the type name of a member of the base matches no placeholder
Unmatched(fromType, placeholders) ==
    ~InSeq(CleanTypeName(fromType), placeholders)

\* the type name of the instance at the place of an unmatched type name of
\* the base: that name as declared (cleaned = FALSE), or that name without
\* its decoration (cleaned = TRUE)
UnmatchedIs(fromType, toType, placeholders, cleaned) ==
    Unmatched(fromType, placeholders)
        => toType = (IF cleaned THEN CleanTypeName(fromType) ELSE fromType)

\* every unmatched property type, return type and argument type of the base
\* against the instance
UnmatchedMembers(base, inst, cleaned) ==
    /\ Len(inst.properties) = Len(base.properties)
    /\ \A i \in 1..Len(base.properties) :
         UnmatchedIs(base.properties[i].typename, inst.properties[i].typename,
                     base.subTypes, cleaned)
    /\ Len(inst.methods) = Len(base.methods)
    /\ \A i \in 1..Len(base.methods) :
         /\ UnmatchedIs(base.methods[i].returnType, inst.methods[i].returnType,
                        base.subTypes, cleaned)
         /\ Len(inst.methods[i].args) = Len(base.methods[i].args)
         /\ \A j \in 1..Len(base.methods[i].args) :
              UnmatchedIs(base.methods[i].args[j].typename,
                          inst.methods[i].args[j].typename,
                          base.subTypes, cleaned)

\* C22 as stated: in the instance an operation has just made, every property
\* type, return type and argument type of the base that matches no
\* placeholder is the type name of the base exactly as declared, const, &
\* and @ included.
C22_UnmatchedAsDeclared ==
    \A k \in call.created :
        IsInstance(database, k)
            => UnmatchedMembers(database[BaseOf(k)], database[k], FALSE)

\* C22: in the instance an operation has just made, every property type,
\* return type and argument type of the base that matches no placeholder is
\* the type name of the base with its decoration cleaned off (CleanTypeName:
\* no leading "const ", no trailing & and @).
C22_UnmatchedCleaned ==
    \A k \in call.created :
        IsInstance(database, k)
            => UnmatchedMembers(database[BaseOf(k)], database[k], TRUE)

\* C22 witness: Foo<int> made from Foo<T>: size : const int& of the base is
\* size : int in the instance, and the second argument of get stays int
C22_Witness ==
    /\ call.op = "GetType"
    /\ call.created = { S_FooInt }
    /\ database[S_Foo].subTypes = << S_T >>
    /\ database[S_Foo].properties[2].typename
         = ConstPrefix \o S_int \o << "&" >>
    /\ database[S_FooInt].properties[2].typename = S_int
    /\ database[S_Foo].methods[1].args[2].typename = S_int
    /\ database[S_FooInt].methods[1].args[2].typename = S_int


\* every entry the registry holds stays, the same object
EntriesKept ==
    \A k \in DOMAIN database :
        /\ k \in DOMAIN database'
        /\ database'[k] = database[k]
        /\ k \notin call'.created

\* C23: GetType changes the registry only by memoization: a call that
\* returns null, or that finds an exact match, leaves the registry as it
\* was; a call that makes a template instance adds exactly one entry, under
\* the queried name stripped of its decoration and with that key as its
\* typename; no call modifies or removes an entry.
C23_GetTypeFrame ==
    [][ call'.op = "GetType"
        => /\ EntriesKept
           /\ call'.removed = {}
           /\ call'.status = "null" => database' = database
           /\ (call'.status = "type"
               /\ CleanTypeName(call'.name) \in DOMAIN database)
              => (database' = database
                  /\ call'.key = CleanTypeName(call'.name))
           /\ (call'.status = "type"
               /\ CleanTypeName(call'.name) \notin DOMAIN database)
              => /\ DOMAIN database'
                      = DOMAIN database \cup { CleanTypeName(call'.name) }
                 /\ call'.created = { CleanTypeName(call'.name) }
                 /\ call'.key = CleanTypeName(call'.name)
                 /\ database'[call'.key].typename = call'.key
                 /\ IsInstance(database', call'.key) ]_vars

\* C23 witness: GetType("Foo<int>@") has made Foo<int>, the one entry added
C23_Witness ==
    /\ call.op = "GetType"
    /\ call.name = S_FooInt \o << "@" >>
    /\ call.status = "type"
    /\ call.created = { S_FooInt }
    /\ call.key = S_FooInt
    /\ S_FooInt \in DOMAIN database
    /\ database[S_FooInt].typename = S_FooInt


\* C24: inheritsFrom terminates and returns a boolean whatever the registry
\* holds, a cycle of supertype / unrealsuper references that does not hold
\* the candidate included.
C24_InheritsFromTerminates ==
    (call.op = "inheritsFrom" /\ call.status = "running")
        ~> (call.op = "inheritsFrom" /\ call.status = "boolean")


\* the events the handlers run for in this step
DeliveredNow == engine'.delivered \ engine.delivered

\* the sockets destroyed in this step
DestroyedNow == engine'.destroyed \ engine.destroyed

\* at most one socket is live, and it is the one unreal holds; at most one
\* reconnect timer is pending, and unreal is null while it is
OneSocketOneTimer ==
    /\ Cardinality(LiveSockets(engine)) <= 1
    /\ LiveSockets(engine) \subseteq { engine.unreal }
    /\ engine.timers <= 1
    /\ engine.timers = 1 => engine.unreal = 0

OneReconnectUnlessReplaced ==
    /\ []OneSocketOneTimer
    /\ [][ \A d \in DeliveredNow :
             IF engine.unreal = d[1]
             THEN /\ engine'.unreal = 0
                  /\ engine'.timers = 1
                  /\ engine'.scheduled[d[1]] = 1
                  /\ DestroyedNow = {}
             ELSE IF engine.unreal = 0
             THEN /\ engine'.unreal = 0
                  /\ engine'.timers = engine.timers
                  /\ engine'.scheduled = engine.scheduled
                  /\ DestroyedNow = {}
             ELSE /\ engine'.unreal = 0
                  /\ engine'.timers = 1
                  /\ engine.unreal \in engine'.destroyed ]_vars

\* socket 1 was lost with an error, both of its events were delivered, its
\* handlers scheduled one reconnect, and the timer has made socket 2, the
\* one socket live
ReconnectedOnce ==
    /\ { << 1, "error" >>, << 1, "close" >> } \subseteq engine.delivered
    /\ engine.scheduled[1] = 1
    /\ engine.made = 2
    /\ engine.unreal = 2
    /\ LiveSockets(engine) = { 2 }
    /\ engine.timers = 0
    /\ engine.pending = {}

====
